---------------------------- MODULE Spec2Model ----------------------------
(***************************************************************************)
(* Verification model of the code runner, the output-file requirement      *)
(* matcher and the chain-of-checkers engine of data-to-paper.              *)
(*                                                                         *)
(* Text is modelled as a sequence of tokens.  The token "F" is the fence   *)
(* delimiter ``` (three backticks), "n" is a newline, "s" a space,         *)
(* "python" the word python and "x" any other non-blank text; backticks     *)
(* occur in runs of three only.                                            *)
(***************************************************************************)
EXTENDS Integers, Sequences, FiniteSets, TLC

VARIABLES
    \* ---- CodeRunner (code_runner.py) ----
    response,       \* CodeRunner.response
    output_file,    \* CodeRunner.output_file: None or the designated file
    disk,           \* content of the designated output file on disk, or Absent
    pc,             \* position inside CodeRunner.run_code
    code,           \* local `code` of run_code
    output,         \* the value returned by read_output_file
    failure,        \* the exception that left run_code, or NoFailure
    runNo,          \* number of the current call of run_code
    diskAtStart,    \* the output file as it was when run_code was called
    executed,       \* run_code_from_file was called in the current call
    wrote           \* the executed code wrote the output file in this call

runnerVars == <<response, output_file, disk, pc, code, output, failure,
                runNo, diskAtStart, executed, wrote>>

VARIABLES
    \* ---- OutputFileRequirements (output_file_requirements.py) ----
    requirements,       \* the OutputFileRequirements tuple
    created_files,      \* the files the run created, as handed to the matcher
    run_folder,         \* the files present in the run folder
    requirements_to_output_files,   \* result [0] of the reconciliation
    unmatched_files,    \* result [1] of the reconciliation
    todo,               \* (requirement, file) pairs the conversion has yet to visit
    content,            \* local `content` of get_content_and_delete_if_needed
    with_content,       \* the OutputFileRequirementsWithContent being built
    single_output,      \* what get_single_output returned or raised
    fpc                 \* position inside the reconciliation / conversion

filesVars == <<requirements, created_files, run_folder,
               requirements_to_output_files, unmatched_files, todo, content,
               with_content, single_output, fpc>>

VARIABLES
    \* ---- checker framework (df_checker.py) ----
    entry,              \* the function that assembled the chain
    checkers,           \* ChainChecker.checkers: the classes of the member checkers
    chain_stop,         \* ChainChecker.stop_after_first_issue
    checker_issues,     \* self.issues of each member checker
    checker_results,    \* self.intermediate_results of each member checker
    chain_issues,       \* ChainChecker.issues
    chain_results,      \* ChainChecker.intermediate_results
    cur,                \* the member checker the chain's loop is at
    rule,               \* the check the member's loop is at
    cpc,                \* position inside ChainChecker._run_checks
    ran,                \* the checks executed so far, with what each did
    started,            \* the member checkers run so far
    appended,           \* every issue handed to _append_issue so far
    written             \* the last value stored under each key by a check

chainVars == <<entry, checkers, chain_stop, checker_issues, checker_results,
               chain_issues, chain_results, cur, rule, cpc, ran, started,
               appended, written>>

VARIABLES
    \* ---- calls of create_and_run_chain_checker (df_checker.py) ----
    heap,               \* every issue list and result dict created so far
    validations         \* the calls of create_and_run_chain_checker

validationVars == <<heap, validations>>

VARIABLES
    \* ---- TextContentOutputFileRequirement (output_file_requirements.py) ----
    text_requirement,   \* the requirement (self)
    text_file,          \* the arguments filename and content
    text_issues,        \* what get_issues_for_output_file_content returned
    tpc                 \* "created", or "returned" once the method was called

textVars == <<text_requirement, text_file, text_issues, tpc>>

VARIABLES
    \* ---- RunCode, the sandboxed execution (test_run_code.py) ----
    run_config,         \* allowed_open_write_files and output_file_requirements
    source,             \* the statements of the executed code, one per line
    lineno,             \* the line the execution is at
    files_created,      \* the files the code has created, in order
    run_error,          \* element [4] of the result of RunCode.run
    entry_points,       \* the statistics entry points: original or wrapped
    spc,                \* position inside RunCode.run
    execution,          \* number of the execution
    endings             \* how the executions so far ended

sandboxVars == <<run_config, source, lineno, files_created, run_error,
                 entry_points, spc, execution, endings>>

VARIABLES
    \* ---- one df checker and its check methods (df_checker.py) ----
    checker,            \* the instance: func_name, df, filename, kwargs,
                        \* prior_dfs, issues
    checked,            \* the method that was called on it, or "none"
    int_dtype           \* np.dtype(int) of the interpreter

dfVars == <<checker, checked, int_dtype>>

VARIABLES
    \* ---- the run contexts and the compiler around the compilation checker ----
    contexts,           \* the registered run contexts that are active
    contexts_before,    \* those that were active when the checkers started
    suspended,          \* the contexts that temporarily_disable_all holds back
    calls,              \* the calls of df_to_latex and of the compiler so far
    compile_to_pdf_func \* the item of ProvideData in a tuple, or <<>>

compileVars == <<contexts, contexts_before, suspended, calls, compile_to_pdf_func>>

vars == <<runnerVars, filesVars, chainVars, validationVars, textVars, sandboxVars,
          dfVars, compileVars>>

\* what the steps of one component leave alone
notRunnerVars == <<filesVars, chainVars, validationVars, textVars, sandboxVars, dfVars,
    compileVars>>
notFilesVars == <<runnerVars, chainVars, validationVars, textVars, sandboxVars, dfVars,
    compileVars>>
notChainVars == <<runnerVars, filesVars, validationVars, textVars, sandboxVars, dfVars,
    compileVars>>
notValidationVars == <<runnerVars, filesVars, chainVars, textVars, sandboxVars, dfVars,
    compileVars>>
notTextVars == <<runnerVars, filesVars, chainVars, validationVars, sandboxVars, dfVars,
    compileVars>>
notSandboxVars == <<runnerVars, filesVars, chainVars, validationVars, textVars, dfVars,
    compileVars>>
notDfVars == <<runnerVars, filesVars, chainVars, validationVars, textVars, sandboxVars,
              compileVars>>
notCompileVars == <<runnerVars, filesVars, chainVars, validationVars, textVars, sandboxVars>>

-----------------------------------------------------------------------------
(* Bounds *)

MaxLen == 6
MaxRuns == 2
MaxRequirements == 2
MaxIssuesPerCheck == 2
MaxValidations == 2
MaxContentLen == 3
MaxSourceLines == 2
MaxRows == 2
MaxCols == 2
MaxPriorDfs == 2
MaxCaptionLen == 4
MaxExecutions == 2

-----------------------------------------------------------------------------
(* Values *)

None == "None"
NoOutput == <<"None">>          \* the value None returned as output
Absent == <<"Absent">>          \* no such file on disk
NoFailure == <<>>
NoCode == <<>>                  \* `code` is not bound yet

\* the text of the output file as written by the k-th call of run_code
\* (k = 0: written before the first call)
WrittenBy(k) == <<"written", k>>

Tokens == {"F", "python", "n", "s", "x"}
Whitespace == {"n", "s"}

Responses == UNION {[1..k -> Tokens] : k \in 0..MaxLen}

-----------------------------------------------------------------------------
(* CodeRunner.extract_code *)

\* CODE_REGEXPS: each regexp is <opening> (.*?) "\n```"; the openings are
\* "```python\n", "``` python\n" and "```\n".
CODE_REGEXPS == << <<"F", "python", "n">>, <<"F", "s", "python", "n">>, <<"F", "n">> >>

ClosingFence == <<"n", "F">>

\* str.count('```')
RECURSIVE CountFences(_)
CountFences(s) ==
    IF s = <<>> THEN 0
    ELSE (IF Head(s) = "F" THEN 1 ELSE 0) + CountFences(Tail(s))

\* the literal `lit` occurs in s at position i
MatchesAt(s, i, lit) ==
    /\ i + Len(lit) - 1 <= Len(s)
    /\ \A k \in 1..Len(lit) : s[i + k - 1] = lit[k]

\* positions j >= from where the closing "\n```" occurs
ClosingPositions(s, from) ==
    {j \in from..Len(s) : MatchesAt(s, j, ClosingFence)}

Min(S) == CHOOSE m \in S : \A o \in S : m <= o

\* re.findall(regexp, s, re.DOTALL): the captured groups of the successive
\* non-overlapping matches, scanning from position i; (.*?) is lazy, so a
\* match ends at the first closing fence after the opening.
RECURSIVE FindAllFrom(_, _, _)
FindAllFrom(opening, s, i) ==
    IF i > Len(s) THEN <<>>
    ELSE IF MatchesAt(s, i, opening) /\ ClosingPositions(s, i + Len(opening)) # {}
         THEN LET j == Min(ClosingPositions(s, i + Len(opening)))
              IN  <<SubSeq(s, i + Len(opening), j - 1)>>
                      \o FindAllFrom(opening, s, j + Len(ClosingFence))
         ELSE FindAllFrom(opening, s, i + 1)

FindAll(opening, s) == FindAllFrom(opening, s, 1)

\* str.strip()
RECURSIVE LStrip(_)
LStrip(s) ==
    IF s # <<>> /\ Head(s) \in Whitespace THEN LStrip(Tail(s)) ELSE s

RECURSIVE RStrip(_)
RStrip(s) ==
    IF s # <<>> /\ s[Len(s)] \in Whitespace THEN RStrip(SubSeq(s, 1, Len(s) - 1)) ELSE s

Strip(s) == RStrip(LStrip(s))

Extracted(c) == [ok |-> TRUE, code |-> c]
FailedExtractingCode(num) == [ok |-> FALSE, num |-> num]

\* the for loop over CODE_REGEXPS, from the r-th regexp on
RECURSIVE TryRegexps(_, _)
TryRegexps(resp, r) ==
    IF r > Len(CODE_REGEXPS) THEN FailedExtractingCode(CountFences(resp))
    ELSE LET matches == FindAll(CODE_REGEXPS[r], resp)
         IN  IF Len(matches) = 1 THEN Extracted(Strip(matches[1]))
             ELSE TryRegexps(resp, r + 1)

\* a variant of the test that accepts any response with two or more edges
HasAtLeastTwoBlockEdges(resp) == CountFences(resp) >= 2

\* the test on the number of block edges
HasTwoBlockEdges(resp) == CountFences(resp) = 2

extract_code(resp) ==
    IF HasTwoBlockEdges(resp) THEN TryRegexps(resp, 1)
    ELSE FailedExtractingCode(CountFences(resp))

-----------------------------------------------------------------------------
(* CodeRunner.run_code, step by step *)

\* a variant of the removal that leaves the file in place
KeepFile(d) == d

\* os.remove of an existing file
RemoveFile(d) == Absent

RunnerInit ==
    /\ response \in Responses
    /\ output_file \in {None, "output.txt"}
    /\ disk \in {Absent, WrittenBy(0)}
    /\ pc = "extract"
    /\ code = NoCode
    /\ output = NoOutput
    /\ failure = NoFailure
    /\ runNo = 1
    /\ diskAtStart = disk
    /\ executed = FALSE
    /\ wrote = FALSE

\* code = self.extract_code()
ExtractCode ==
    /\ pc = "extract"
    /\ LET r == extract_code(response)
       IN  IF r.ok
           THEN /\ code' = r.code
                /\ pc' = "delete"
                /\ failure' = NoFailure
           ELSE /\ code' = code
                /\ pc' = "failed"
                /\ failure' = <<"FailedExtractingCode", r.num>>
    /\ UNCHANGED <<response, output_file, disk, output, runNo, diskAtStart,
                   executed, wrote>>
    /\ UNCHANGED notRunnerVars

\* self.delete_output_file(): os.remove(None) raises TypeError, a missing
\* file is ignored.
DeleteOutputFile ==
    /\ pc = "delete"
    /\ IF output_file = None
       THEN /\ pc' = "failed"
            /\ failure' = <<"TypeError">>
            /\ disk' = disk
       ELSE /\ pc' = "execute"
            /\ failure' = failure
            /\ disk' = IF disk = Absent THEN disk ELSE RemoveFile(disk)
    /\ UNCHANGED <<response, output_file, code, output, runNo, diskAtStart,
                   executed, wrote>>
    /\ UNCHANGED notRunnerVars

\* run_code_from_file(code, self.script_file): the executed code may or may
\* not write the designated output file, and may raise.
RunCodeFromFile ==
    /\ pc = "execute"
    /\ \E writes \in BOOLEAN, raises \in BOOLEAN :
          /\ disk' = IF writes /\ output_file # None THEN WrittenBy(runNo) ELSE disk
          /\ wrote' = (writes /\ output_file # None)
          /\ IF raises
             THEN pc' = "failed" /\ failure' = <<"FailedRunningCode">>
             ELSE pc' = "read" /\ failure' = failure
    /\ executed' = TRUE
    /\ UNCHANGED <<response, output_file, code, output, runNo, diskAtStart>>
    /\ UNCHANGED notRunnerVars

\* return CodeAndOutput(code, self.read_output_file())
ReadOutputFile ==
    /\ pc = "read"
    /\ IF output_file = None
       THEN pc' = "done" /\ output' = NoOutput /\ failure' = failure
       ELSE IF disk = Absent
            THEN pc' = "failed" /\ output' = output
                 /\ failure' = <<"FailedLoadingOutput">>
            ELSE pc' = "done" /\ output' = disk /\ failure' = failure
    /\ UNCHANGED <<response, output_file, disk, code, runNo, diskAtStart,
                   executed, wrote>>
    /\ UNCHANGED notRunnerVars

\* run_code is called again on the same CodeRunner
RunAgain ==
    /\ pc \in {"done", "failed"}
    /\ runNo < MaxRuns
    /\ runNo' = runNo + 1
    /\ pc' = "extract"
    /\ code' = NoCode
    /\ output' = NoOutput
    /\ failure' = NoFailure
    /\ diskAtStart' = disk
    /\ executed' = FALSE
    /\ wrote' = FALSE
    /\ UNCHANGED <<response, output_file, disk>>
    /\ UNCHANGED notRunnerVars

RunnerNext ==
    \/ ExtractCode
    \/ DeleteOutputFile
    \/ RunCodeFromFile
    \/ ReadOutputFile
    \/ RunAgain

-----------------------------------------------------------------------------
(* OutputFileRequirement *)

\* file names and patterns are sequences of characters
FileNames == {<<"a">>, <<"a", "b">>, <<"b">>}
Patterns == {<<"a">>, <<"a", "*">>, <<"?">>}

\* the requirement classes: what get_content returns (None for a data file,
\* the text, the unpickled object) and the should_keep_file flag, which is
\* True, False or NotImplemented (the default of the content base class)
RequirementKinds == {"Data", "Text", "Pickle"}
KeepFlags == {"True", "False", "NotImplemented"}

RequirementClasses ==
    { [kind |-> "Data", should_keep_file |-> "True"],
      [kind |-> "Data", should_keep_file |-> "False"],
      [kind |-> "Text", should_keep_file |-> "False"],
      [kind |-> "Text", should_keep_file |-> "NotImplemented"],
      [kind |-> "Pickle", should_keep_file |-> "True"] }

OutputFileRequirement ==
    { [filename |-> p, kind |-> c.kind, should_keep_file |-> c.should_keep_file] :
        p \in Patterns, c \in RequirementClasses }

\* fnmatch(name, pat): '*' matches any run of characters, '?' one character
RECURSIVE fnmatch(_, _)
fnmatch(name, pat) ==
    IF pat = <<>> THEN name = <<>>
    ELSE IF Head(pat) = "*"
         THEN \/ fnmatch(name, Tail(pat))
              \/ name # <<>> /\ fnmatch(Tail(name), pat)
         ELSE /\ name # <<>>
              /\ Head(pat) = "?" \/ Head(pat) = Head(name)
              /\ fnmatch(Tail(name), Tail(pat))

\* OutputFileRequirement.matches
matches(requirement, filename) == fnmatch(filename, requirement.filename)

\* truth value of the should_keep_file flag
Truthy(flag) == flag # "False"

NoneContent == <<"None">>

\* get_content of the requirement's class
get_content(requirement, file) ==
    CASE requirement.kind = "Data" -> NoneContent
      [] requirement.kind = "Text" -> <<"text", file>>
      [] requirement.kind = "Pickle" -> <<"object", file>>

-----------------------------------------------------------------------------
(* OutputFileRequirements._get_requirements_to_output_files_and_unmatched_files *)

Range(seq) == {seq[i] : i \in 1..Len(seq)}

MatchingIndexes(reqs, file) == {i \in 1..Len(reqs) : matches(reqs[i], file)}

\* a variant of the inner loop without its break: the scan goes on after a
\* match, and the else branch of the loop runs at its end
RECURSIVE ScanWithoutBreak(_, _, _, _)
ScanWithoutBreak(reqs, i, acc, file) ==
    IF i > Len(reqs) THEN [acc EXCEPT !.unmatched = Append(@, file)]
    ELSE ScanWithoutBreak(reqs, i + 1,
            IF matches(reqs[i], file)
            THEN [acc EXCEPT !.map[reqs[i]] = Append(@, file)] ELSE acc,
            file)

\* the inner loop `for requirement in self`, from the i-th requirement on:
\* append and break at the first match, else branch when the loop runs out
RECURSIVE ScanRequirements(_, _, _, _)
ScanRequirements(reqs, i, acc, file) ==
    IF i > Len(reqs) THEN [acc EXCEPT !.unmatched = Append(@, file)]
    ELSE IF matches(reqs[i], file)
         THEN [acc EXCEPT !.map[reqs[i]] = Append(@, file)]
         ELSE ScanRequirements(reqs, i + 1, acc, file)

\* the body of the loop over created_files
AssignCreatedFile(reqs, acc, file) == ScanRequirements(reqs, 1, acc, file)

RECURSIVE ReconcileFrom(_, _, _)
ReconcileFrom(reqs, files, acc) ==
    IF files = <<>> THEN acc
    ELSE ReconcileFrom(reqs, Tail(files), AssignCreatedFile(reqs, acc, Head(files)))

\* the dict is keyed by the requirements: equal requirements share one key
Reconcile(reqs, files) ==
    ReconcileFrom(reqs, files,
                  [map |-> [r \in Range(reqs) |-> <<>>], unmatched |-> <<>>])

\* sorted(created_files)
NameRank(f) == CASE f = <<"a">> -> 1 [] f = <<"a", "b">> -> 2 [] f = <<"b">> -> 3

RECURSIVE Sorted(_)
Sorted(files) ==
    IF files = <<>> THEN <<>>
    ELSE LET least == CHOOSE f \in Range(files) :
                          \A g \in Range(files) : NameRank(f) <= NameRank(g)
         IN  <<least>> \o Sorted(SelectSeq(files, LAMBDA g : g # least))

\* distinct requirements in the order of their first occurrence (the order
\* of the keys of the dict)
RECURSIVE KeyOrder(_)
KeyOrder(reqs) ==
    IF reqs = <<>> THEN <<>>
    ELSE <<Head(reqs)>> \o KeyOrder(SelectSeq(Tail(reqs), LAMBDA r : r # Head(reqs)))

\* the (requirement, file) pairs in the order the two comprehensions visit them
RECURSIVE VisitOrder(_, _)
VisitOrder(keys, map) ==
    IF keys = <<>> THEN <<>>
    ELSE [i \in 1..Len(map[Head(keys)]) |->
              [requirement |-> Head(keys), file |-> map[Head(keys)][i]]]
         \o VisitOrder(Tail(keys), map)

-----------------------------------------------------------------------------
(* Reconciliation and conversion, step by step *)

NoContent == <<"unset">>
NoSingleOutput == <<"unset">>
EmptyMap == <<>>

DistinctSeqs(S) ==
    {q \in UNION {[1..k -> S] : k \in 0..Cardinality(S)} :
        \A i, j \in 1..Len(q) : i # j => q[i] # q[j]}

FilesInit ==
    /\ requirements \in UNION {[1..k -> OutputFileRequirement] : k \in 0..MaxRequirements}
    /\ created_files \in DistinctSeqs(FileNames)
    /\ run_folder = Range(created_files)
    /\ requirements_to_output_files = EmptyMap
    /\ unmatched_files = <<>>
    /\ todo = <<>>
    /\ content = NoContent
    /\ with_content = EmptyMap
    /\ single_output = NoSingleOutput
    /\ fpc = "created"

\* get_requirements_to_output_files / get_unmatched_files on the created files
GetUnmatchedFiles ==
    /\ fpc = "created"
    /\ LET r == Reconcile(requirements, created_files)
       IN  /\ requirements_to_output_files' = r.map
           /\ unmatched_files' = r.unmatched
    /\ fpc' = "reconciled"
    /\ UNCHANGED <<requirements, created_files, run_folder, todo, content, with_content>>
    /\ UNCHANGED single_output
    /\ UNCHANGED notFilesVars

\* convert_to_output_file_requirements_with_content, up to the comprehensions
ConvertStart ==
    /\ fpc = "reconciled"
    /\ LET r == Reconcile(requirements, Sorted(created_files))
       IN  /\ requirements_to_output_files' = r.map
           /\ todo' = VisitOrder(KeyOrder(requirements), r.map)
           /\ with_content' = [q \in Range(requirements) |-> EmptyMap]
    /\ fpc' = "get_content"
    /\ UNCHANGED <<requirements, created_files, run_folder, unmatched_files, content>>
    /\ UNCHANGED single_output
    /\ UNCHANGED notFilesVars

\* content = self.get_content(file_path); pickle.load may raise
GetContent ==
    /\ fpc = "get_content"
    /\ todo # <<>>
    /\ \E fails \in BOOLEAN :
          IF fails /\ Head(todo).requirement.kind = "Pickle"
          THEN /\ fpc' = "raised"
               /\ content' = content
          ELSE /\ fpc' = "delete_if_needed"
               /\ content' = get_content(Head(todo).requirement, Head(todo).file)
    /\ UNCHANGED <<requirements, created_files, run_folder,
                   requirements_to_output_files, unmatched_files, todo, with_content>>
    /\ UNCHANGED single_output
    /\ UNCHANGED notFilesVars

\* a variant of delete_if_needed that removes the file whatever the flag
ShouldDeleteAlways(requirement) == TRUE

\* delete_if_needed: `if not self.should_keep_file`
ShouldDelete(requirement) == ~Truthy(requirement.should_keep_file)

\* self.delete_if_needed(file_path); return content; the entry is stored in
\* the inner dict.  The truth value of NotImplemented is True with a
\* deprecation warning, and a TypeError in the newest interpreters.
DeleteIfNeeded ==
    /\ fpc = "delete_if_needed"
    /\ LET item == Head(todo)
       IN  \E typeError \in BOOLEAN :
             IF typeError /\ item.requirement.should_keep_file = "NotImplemented"
             THEN /\ fpc' = "raised"
                  /\ UNCHANGED <<run_folder, with_content, todo, content>>
             ELSE /\ run_folder' = IF ShouldDelete(item.requirement)
                                   THEN run_folder \ {item.file} ELSE run_folder
                  /\ with_content' =
                        [with_content EXCEPT ![item.requirement] =
                            (item.file :> content) @@ @]
                  /\ todo' = Tail(todo)
                  /\ content' = NoContent
                  /\ fpc' = "get_content"
    /\ UNCHANGED <<requirements, created_files, requirements_to_output_files,
                   unmatched_files>>
    /\ UNCHANGED single_output
    /\ UNCHANGED notFilesVars

\* return OutputFileRequirementsWithContent(...)
ConvertReturn ==
    /\ fpc = "get_content"
    /\ todo = <<>>
    /\ fpc' = "converted"
    /\ UNCHANGED <<requirements, created_files, run_folder,
                   requirements_to_output_files, unmatched_files, todo, content,
                   with_content>>
    /\ UNCHANGED single_output
    /\ UNCHANGED notFilesVars

\* OutputFileRequirement.is_wildcard
is_wildcard(requirement) ==
    \E i \in 1..Len(requirement.filename) : requirement.filename[i] \in {"*", "?"}

\* isinstance(req, BaseContentOutputFileRequirement)
is_content_requirement(requirement) == requirement.kind \in {"Text", "Pickle"}

\* minimal_count, left at the default of the requirement's class
minimal_count(requirement) == IF requirement.kind = "Data" THEN 0 ELSE 1

\* OutputFileRequirements.get_single_content_file, on the keys of the dict
get_single_content_file(reqs) ==
    LET content_file_requirements ==
            SelectSeq(reqs, LAMBDA req : /\ is_content_requirement(req)
                                         /\ ~is_wildcard(req)
                                         /\ minimal_count(req) = 1)
    IN  IF Len(content_file_requirements) # 1 THEN NoneContent
        ELSE content_file_requirements[1].filename

\* get_pretty_content with filename=None: str(content)
get_pretty_content(c) == IF c[1] = "text" THEN c ELSE <<"str">> \o c

\* _get_created_content_files_to_contents with match_filename='*': the
\* files of the content requirements, each with its content
get_created_content_files_to_contents(self, is_pretty) ==
    LET holders == {r \in DOMAIN self : is_content_requirement(r)}
        files == UNION {DOMAIN self[r] : r \in holders}
    IN  [f \in files |->
            LET r == CHOOSE q \in holders : f \in DOMAIN self[q]
            IN  IF is_pretty THEN get_pretty_content(self[r][f]) ELSE self[r][f]]

\* get_single_output: the lookup raises KeyError for a missing key
get_single_output(self, keys, is_pretty) ==
    LET single_content_filename == get_single_content_file(keys)
        result == get_created_content_files_to_contents(self, is_pretty)
    IN  IF single_content_filename = NoneContent THEN <<"return", NoneContent>>
        ELSE IF single_content_filename \in DOMAIN result
             THEN <<"return", result[single_content_filename]>>
             ELSE <<"KeyError", single_content_filename>>

\* OutputFileRequirementsWithContent.get_single_output on the converted dict
GetSingleOutput ==
    /\ fpc = "converted"
    /\ \E is_pretty \in BOOLEAN :
          single_output' = get_single_output(with_content, KeyOrder(requirements),
                                             is_pretty)
    /\ fpc' = "single_output"
    /\ UNCHANGED <<requirements, created_files, run_folder,
                   requirements_to_output_files, unmatched_files, todo, content,
                   with_content>>
    /\ UNCHANGED notFilesVars

FilesNext ==
    \/ GetUnmatchedFiles
    \/ ConvertStart
    \/ GetContent
    \/ DeleteIfNeeded
    \/ ConvertReturn
    \/ GetSingleOutput

\* the requirement matcher at rest
FilesIdle ==
    /\ requirements = <<>>
    /\ created_files = <<>>
    /\ run_folder = {}
    /\ requirements_to_output_files = EmptyMap
    /\ unmatched_files = <<>>
    /\ todo = <<>>
    /\ content = NoContent
    /\ with_content = EmptyMap
    /\ single_output = NoSingleOutput
    /\ fpc = "created"

\* the code runner at rest
RunnerIdle ==
    /\ response = <<>>
    /\ output_file = None
    /\ disk = Absent
    /\ pc = "idle"
    /\ code = NoCode
    /\ output = NoOutput
    /\ failure = NoFailure
    /\ runNo = 1
    /\ diskAtStart = Absent
    /\ executed = FALSE
    /\ wrote = FALSE

-----------------------------------------------------------------------------
(* Checker classes *)

\* a check method: `kind` tells what the model lets it do.  The checks of
\* the df checkers return None ("plain"); check_compilation_and_get_width
\* also stores the width ("compile"); a check of any other BaseChecker
\* subclass may return a stop signal and store results ("any").
Check(name, kind) == [name |-> name, kind |-> kind]

Plain(names) == [i \in 1..Len(names) |-> Check(names[i], "plain")]

EmptyDict == <<>>

CheckerClass(name, stop, defaults, checks) ==
    [name |-> name, stop_after_first_issue |-> stop,
     intermediate_results |-> defaults, CHOICE_OF_CHECKS |-> checks]

SyntaxChecks == <<"check_filename", "check_no_label">>

TableSyntaxDfChecker ==
    CheckerClass("TableSyntaxDfChecker", FALSE, EmptyDict,
        Plain(SyntaxChecks \o <<"check_that_index_is_true", "check_column_arg_is_not_used">>))

FigureSyntaxDfChecker ==
    CheckerClass("FigureSyntaxDfChecker", FALSE, EmptyDict,
        Plain(SyntaxChecks \o <<"check_kind_arg", "check_y_arg", "check_yerr_arg",
                                "check_that_specified_columns_exist">>))

DfContentChecks ==
    <<"check_df_for_nan_values", "check_df_value_types", "check_df_headers_type",
      "check_df_index_is_a_range", "check_df_size">>

TableDfContentChecker ==
    CheckerClass("TableDfContentChecker", TRUE, EmptyDict,
        Plain(<<"check_df_is_a_result_of_describe", "check_df_for_repeated_values",
                "check_df_for_repeated_values_in_prior_dfs">> \o DfContentChecks))

FigureDfContentChecker ==
    CheckerClass("FigureDfContentChecker", TRUE, EmptyDict,
        Plain(DfContentChecks \o
              <<"check_that_y_values_are_numeric", "check_for_p_values_in_figure",
                "check_for_max_number_of_bars", "check_that_y_values_are_diverse",
                "check_for_numeric_x_for_line_and_scatter">>))

\* CompilationDfContentChecker.intermediate_results
WidthDefault == ("width" :> "None")

FigureCompilationDfContentChecker ==
    CheckerClass("FigureCompilationDfContentChecker", TRUE, WidthDefault, <<>>)

TableCompilationDfContentChecker ==
    CheckerClass("TableCompilationDfContentChecker", TRUE, WidthDefault,
        <<Check("check_compilation_and_get_width", "compile")>>)

SecondTableContentChecker ==
    CheckerClass("SecondTableContentChecker", TRUE, EmptyDict,
        Plain(<<"check_for_repetitive_value_in_column">>))

SecondFigureContentChecker ==
    CheckerClass("SecondFigureContentChecker", TRUE, EmptyDict,
        Plain(<<"check_log_scale_for_odds_ratios">>))

AnnotationDfChecker ==
    CheckerClass("AnnotationDfChecker", FALSE, EmptyDict,
        Plain(<<"check_for_unallowed_characters_in_labels",
                "check_for_abbreviations_not_in_glossary",
                "check_for_glossary_labels_not_in_df", "check_note", "check_caption",
                "check_note_is_different_than_caption">>))

ContinuityDfChecker ==
    CheckerClass("ContinuityDfChecker", TRUE, EmptyDict,
        Plain(<<"check_for_file_continuity">>))

\* two further subclasses of BaseChecker: one with the default
\* stop_after_first_issue and no default results, one that stops after the
\* first issue and has a default entry
OpenChecker ==
    CheckerClass("OpenChecker", FALSE, EmptyDict,
        <<Check("check_a", "any"), Check("check_b", "any")>>)

StoppingChecker ==
    CheckerClass("StoppingChecker", TRUE, ("key" :> "None"),
        <<Check("check_c", "any"), Check("check_d", "any")>>)

\* the class that each checker class is derived from
BaseOf ==
    [BaseDfChecker |-> "BaseChecker",
     SyntaxDfChecker |-> "BaseDfChecker",
     TableSyntaxDfChecker |-> "SyntaxDfChecker",
     FigureSyntaxDfChecker |-> "SyntaxDfChecker",
     BaseContentDfChecker |-> "BaseDfChecker",
     DfContentChecker |-> "BaseContentDfChecker",
     TableDfContentChecker |-> "DfContentChecker",
     FigureDfContentChecker |-> "DfContentChecker",
     CompilationDfContentChecker |-> "BaseContentDfChecker",
     FigureCompilationDfContentChecker |-> "CompilationDfContentChecker",
     TableCompilationDfContentChecker |-> "CompilationDfContentChecker",
     SecondTableContentChecker |-> "BaseContentDfChecker",
     SecondFigureContentChecker |-> "BaseContentDfChecker",
     AnnotationDfChecker |-> "BaseContentDfChecker",
     ContinuityDfChecker |-> "BaseContentDfChecker",
     OpenChecker |-> "BaseChecker",
     StoppingChecker |-> "BaseChecker"]

\* the attributes with a name that starts with 'check' that the body of
\* each class defines
DefinedChecks ==
    [BaseChecker |-> {},
     BaseDfChecker |-> {},
     SyntaxDfChecker |-> {"check_filename", "check_no_label"},
     TableSyntaxDfChecker |-> {"check_that_index_is_true", "check_column_arg_is_not_used"},
     FigureSyntaxDfChecker |->
         {"check_kind_arg", "check_y_arg", "check_yerr_arg",
          "check_that_specified_columns_exist"},
     BaseContentDfChecker |-> {},
     DfContentChecker |->
         {"check_df_value_types", "check_df_for_nan_values", "check_df_headers_type",
          "check_df_index_is_a_range", "check_df_size"},
     TableDfContentChecker |->
         {"check_df_is_a_result_of_describe", "check_df_for_repeated_values",
          "check_df_for_repeated_values_in_prior_dfs"},
     FigureDfContentChecker |->
         {"check_that_y_values_are_numeric", "check_for_p_values_in_figure",
          "check_for_max_number_of_bars", "check_that_y_values_are_diverse",
          "check_for_numeric_x_for_line_and_scatter"},
     CompilationDfContentChecker |-> {},
     FigureCompilationDfContentChecker |-> {},
     TableCompilationDfContentChecker |-> {"check_compilation_and_get_width"},
     SecondTableContentChecker |-> {"check_for_repetitive_value_in_column"},
     SecondFigureContentChecker |-> {"check_log_scale_for_odds_ratios"},
     AnnotationDfChecker |->
         {"check_for_unallowed_characters_in_labels",
          "check_for_abbreviations_not_in_glossary",
          "check_for_glossary_labels_not_in_df", "check_note", "check_caption",
          "check_note_is_different_than_caption"},
     ContinuityDfChecker |-> {"check_for_file_continuity"},
     OpenChecker |-> {"check_a", "check_b"},
     StoppingChecker |-> {"check_c", "check_d"}]

\* the check methods of every class of the module
check_methods_of_all_classes(name) == UNION {DefinedChecks[c] : c \in DOMAIN DefinedChecks}

\* _automatically_get_all_check_methods: the names in dir(self) that start
\* with 'check', the class's own and the inherited ones
RECURSIVE automatically_get_all_check_methods(_)
automatically_get_all_check_methods(name) ==
    DefinedChecks[name]
    \cup IF name = "BaseChecker" THEN {}
         ELSE automatically_get_all_check_methods(BaseOf[name])

\* the assertion of
\* _assert_if_provided_choice_of_checks_include_all_check_methods; every
\* class here provides its CHOICE_OF_CHECKS
choice_of_checks_include_all_check_methods(class) ==
    automatically_get_all_check_methods(class.name)
        \subseteq {class.CHOICE_OF_CHECKS[i].name : i \in DOMAIN class.CHOICE_OF_CHECKS}

\* the lists of checkers of the four entry points
check_df_to_figure_analysis == <<FigureSyntaxDfChecker, FigureDfContentChecker>>

check_df_to_latex_analysis == <<TableSyntaxDfChecker, TableDfContentChecker>>

check_df_to_figure_displayitems ==
    <<FigureSyntaxDfChecker, FigureDfContentChecker, ContinuityDfChecker,
      SecondFigureContentChecker, FigureCompilationDfContentChecker,
      AnnotationDfChecker>>

\* a variant of the table list in the order of the sections of the module
LatexDisplayitemsBySection ==
    <<TableSyntaxDfChecker, TableDfContentChecker, TableCompilationDfContentChecker,
      SecondTableContentChecker, AnnotationDfChecker, ContinuityDfChecker>>

check_df_to_latex_displayitems ==
    <<TableSyntaxDfChecker, TableDfContentChecker, ContinuityDfChecker,
      SecondTableContentChecker, TableCompilationDfContentChecker,
      AnnotationDfChecker>>

EntryPoints ==
    {"check_df_to_figure_analysis", "check_df_to_latex_analysis",
     "check_df_to_figure_displayitems", "check_df_to_latex_displayitems"}

DisplayitemEntryPoints ==
    {"check_df_to_figure_displayitems", "check_df_to_latex_displayitems"}

CheckersOf(e) ==
    CASE e = "check_df_to_figure_analysis" -> check_df_to_figure_analysis
      [] e = "check_df_to_latex_analysis" -> check_df_to_latex_analysis
      [] e = "check_df_to_figure_displayitems" -> check_df_to_figure_displayitems
      [] e = "check_df_to_latex_displayitems" -> check_df_to_latex_displayitems

\* lists handed to create_and_run_chain_checker by other callers
OtherChains ==
    {<<OpenChecker, StoppingChecker, OpenChecker>>,
     <<StoppingChecker, OpenChecker>>}

-----------------------------------------------------------------------------
(* BaseChecker._run_checks and ChainChecker._run_checks *)

\* what the compiler callable returns: a width ratio (a float) or an error
WidthValues == {"0.0", "1.0", "1.5", "error"}
IsFloat(e) == e # "error"
Ratio100(e) == CASE e = "0.0" -> 0 [] e = "1.0" -> 100 [] e = "1.5" -> 150
WidthThreshold100 == 130

\* values a check of another subclass may store
OtherKeys == {"key"}
OtherValues == {"v1", "v2"}

\* self.intermediate_results[key] = value, for every entry a check stores
Store(d, stores) == stores @@ d

\* a variant of update in which the entries already present are kept
UpdateKeepingOwn(d, other) == d @@ other

\* dict.update(other): the entries of other win
Update(d, other) == other @@ d

\* the issues appended by one execution of a check
NewIssues(k, r, n) == [i \in 1..n |-> [checker |-> k, check |-> r, n |-> i]]

\* what one execution of a check may do: the number of issues it appends,
\* the value it returns, and the entries it stores
Outcomes(check) ==
    CASE check.kind = "plain" ->
            {[n |-> n, should_stop |-> FALSE, stores |-> EmptyDict] :
                n \in 0..MaxIssuesPerCheck}
      [] check.kind = "compile" ->
            {[n |-> IF IsFloat(e) /\ Ratio100(e) <= WidthThreshold100 THEN 0 ELSE 1,
              should_stop |-> FALSE, stores |-> ("width" :> e)] : e \in WidthValues}
      [] check.kind = "any" ->
            {[n |-> n, should_stop |-> b, stores |-> st] :
                n \in 0..MaxIssuesPerCheck, b \in BOOLEAN,
                st \in {EmptyDict} \cup {(k :> v) : k \in OtherKeys, v \in OtherValues}}

\* a variant of the contract test that looks at all the issues of the checker
StopWithoutAnyIssue(should_stop, num_created_issues, issues) ==
    should_stop /\ issues = <<>>

\* `if should_stop and not num_created_issues: assert False`
StopWithoutIssue(should_stop, num_created_issues, issues) ==
    should_stop /\ num_created_issues = 0

\* a variant of the checker's test that ignores the flag
CheckerBreaksOnStopOnly(issues, stop_after_first_issue, should_stop) ==
    issues # <<>> /\ should_stop

\* `if self.issues and (self.stop_after_first_issue or should_stop): break`
CheckerBreaks(issues, stop_after_first_issue, should_stop) ==
    issues # <<>> /\ (stop_after_first_issue \/ should_stop)

\* a variant of the chain's test that ignores the flag
ChainBreaksOnIssues(issues, stop_after_first_issue) == issues # <<>>

\* `if issues and self.stop_after_first_issue: break`
ChainBreaks(issues, stop_after_first_issue) ==
    issues # <<>> /\ stop_after_first_issue

\* a variant of extend that puts the new issues first
ExtendInFront(issues, more) == more \o issues

\* self.issues.extend(issues)
Extend(issues, more) == issues \o more

\* RunIssues(): an empty ordered collection of RunIssue
RunIssues == <<>>

\* create_and_run_chain_checker: one instance per class, each with its own
\* empty issues and its own default intermediate results
ChainInit ==
    /\ \/ entry \in EntryPoints /\ checkers = CheckersOf(entry) /\ chain_stop = TRUE
       \/ entry = "create_and_run_chain_checker" /\ checkers \in OtherChains
            /\ chain_stop \in BOOLEAN
    /\ checker_issues = [k \in 1..Len(checkers) |-> RunIssues]
    /\ checker_results = [k \in 1..Len(checkers) |-> checkers[k].intermediate_results]
    /\ chain_issues = RunIssues
    /\ chain_results = EmptyDict
    /\ cur = 0
    /\ rule = 0
    /\ cpc = "next"
    /\ ran = <<>>
    /\ started = <<>>
    /\ appended = <<>>
    /\ written = EmptyDict

\* where the member's loop goes once the check at index r is done
AfterCheck(k, r, breaks) ==
    IF breaks \/ r >= Len(checkers[k].CHOICE_OF_CHECKS) THEN "collect" ELSE "checks"

\* the chain's loop takes the next member:
\* checker.intermediate_results.update(self.intermediate_results), then
\* checker.run_checks() starts with the assertion that CHOICE_OF_CHECKS
\* includes all the check methods
ForwardResults ==
    /\ cpc = "next"
    /\ cur < Len(checkers)
    /\ cur' = cur + 1
    /\ checker_results' =
          [checker_results EXCEPT ![cur + 1] = Update(@, chain_results)]
    /\ started' = Append(started, cur + 1)
    /\ rule' = 1
    /\ cpc' = IF ~choice_of_checks_include_all_check_methods(checkers[cur + 1])
              THEN "missing check method"
              ELSE IF checkers[cur + 1].CHOICE_OF_CHECKS = <<>> THEN "collect"
              ELSE "checks"
    /\ UNCHANGED <<entry, checkers, chain_stop, checker_issues, chain_issues,
                   chain_results, ran, appended, written>>
    /\ UNCHANGED notChainVars

\* one turn of the loop of BaseChecker._run_checks
RunCheck ==
    /\ cpc = "checks"
    /\ LET class == checkers[cur]
           check == class.CHOICE_OF_CHECKS[rule]
       IN  \E o \in Outcomes(check) :
             LET new == NewIssues(cur, rule, o.n)
                 issues == checker_issues[cur] \o new
             IN  /\ checker_issues' = [checker_issues EXCEPT ![cur] = issues]
                 /\ checker_results' = [checker_results EXCEPT ![cur] = Store(@, o.stores)]
                 /\ appended' = appended \o new
                 /\ written' = Store(written, o.stores)
                 /\ ran' = Append(ran, [checker |-> cur, check |-> rule, n |-> o.n,
                                        should_stop |-> o.should_stop])
                 /\ IF StopWithoutIssue(o.should_stop, o.n, issues)
                    THEN cpc' = "assertion" /\ rule' = rule
                    ELSE /\ cpc' = AfterCheck(cur, rule,
                                    CheckerBreaks(issues, class.stop_after_first_issue,
                                                  o.should_stop))
                         /\ rule' = rule + 1
    /\ UNCHANGED <<entry, checkers, chain_stop, chain_issues, chain_results, cur,
                   started>>
    /\ UNCHANGED notChainVars

\* the member returned (self.issues, self.intermediate_results): the chain
\* extends its issues, updates its results and breaks or goes on; at the end
\* of the loop run_checks returns
CollectResults ==
    /\ cpc = "collect"
    /\ chain_issues' = Extend(chain_issues, checker_issues[cur])
    /\ chain_results' = Update(chain_results, checker_results[cur])
    /\ cpc' = IF ChainBreaks(checker_issues[cur], chain_stop) \/ cur = Len(checkers)
              THEN "done" ELSE "next"
    /\ UNCHANGED <<entry, checkers, chain_stop, checker_issues, checker_results,
                   cur, rule, ran, started, appended, written>>
    /\ UNCHANGED notChainVars

ChainNext ==
    \/ ForwardResults
    \/ RunCheck
    \/ CollectResults

\* the checker framework at rest
ChainIdle ==
    /\ entry = "none"
    /\ checkers = <<>>
    /\ chain_stop = TRUE
    /\ checker_issues = <<>>
    /\ checker_results = <<>>
    /\ chain_issues = <<>>
    /\ chain_results = EmptyDict
    /\ cur = 0
    /\ rule = 0
    /\ cpc = "idle"
    /\ ran = <<>>
    /\ started = <<>>
    /\ appended = <<>>
    /\ written = EmptyDict

-----------------------------------------------------------------------------
(* Several calls of create_and_run_chain_checker *)

\* field(default_factory=...) of a dataclass: the callable and what it returns
Factory(name, value) == [factory |-> name, value |-> value]

\* issues: RunIssues = field(default_factory=RunIssues)
IssuesFactory == Factory("RunIssues", RunIssues)

\* intermediate_results: field(default_factory=dict), or the lambda of
\* CompilationDfContentChecker
ResultsFactory(class) ==
    IF class.intermediate_results = EmptyDict
    THEN Factory("dict", EmptyDict)
    ELSE Factory("lambda", class.intermediate_results)

\* a variant in which a field's default is one object for all instances
SharedDefault(h, f) ==
    LET same == {i \in 1..Len(h) : h[i].factory = f.factory}
    IN  IF same = {} THEN [heap |-> Append(h, f), ref |-> Len(h) + 1]
        ELSE [heap |-> h, ref |-> Min(same)]

\* the dataclass calls the factory for every instance: a new object
default_factory(h, f) == [heap |-> Append(h, f), ref |-> Len(h) + 1]

\* [checker(**kwargs) for checker in checkers]
RECURSIVE NewCheckers(_, _, _)
NewCheckers(h, classes, acc) ==
    IF classes = <<>> THEN [heap |-> h, members |-> acc]
    ELSE LET a == default_factory(h, IssuesFactory)
             b == default_factory(a.heap, ResultsFactory(Head(classes)))
         IN  NewCheckers(b.heap, Tail(classes),
                         Append(acc, [class |-> Head(classes), issues |-> a.ref,
                                      intermediate_results |-> b.ref]))

NoChain == [issues |-> 0, intermediate_results |-> 0]

\* a call of one of the entry points that has not yet built its chain
Called(e) == [entry |-> e, vpc |-> "called", chain |-> NoChain, members |-> <<>>,
              at |-> 0]

\* each validation is one of the display-item entry points; the lists of
\* the analysis entry points are the first two members of these
ValidationsInit ==
    /\ heap = <<>>
    /\ validations \in [1..MaxValidations -> {Called(e) : e \in DisplayitemEntryPoints}]

\* ChainChecker(checkers=[...], stop_after_first_issue=...): the members are
\* built first, then the chain itself
CreateChainChecker(v) ==
    /\ validations[v].vpc = "called"
    /\ LET m == NewCheckers(heap, CheckersOf(validations[v].entry), <<>>)
           a == default_factory(m.heap, IssuesFactory)
           b == default_factory(a.heap, Factory("dict", EmptyDict))
       IN  /\ heap' = b.heap
           /\ validations' = [validations EXCEPT
                  ![v].vpc = "created",
                  ![v].members = m.members,
                  ![v].chain = [issues |-> a.ref, intermediate_results |-> b.ref]]
    /\ UNCHANGED notValidationVars

\* what the checks of one member leave behind together: the issues they
\* appended (none or one here) and the entries they stored
MemberOutcomes(class) ==
    IF class.CHOICE_OF_CHECKS = <<>>
    THEN {[n |-> 0, should_stop |-> FALSE, stores |-> EmptyDict]}
    ELSE {o \in UNION {Outcomes(class.CHOICE_OF_CHECKS[i]) :
                            i \in DOMAIN class.CHOICE_OF_CHECKS} : o.n <= 1}

\* the issues appended by the k-th member of validation v
IssuesOf(v, k, n) == [i \in 1..n |-> [validation |-> v, checker |-> k, n |-> i]]

\* one turn of the loop of ChainChecker._run_checks of validation v
RunChecker(v) ==
    LET val == validations[v]
        k == val.at + 1
    IN  /\ val.vpc \in {"created", "running"}
        /\ k <= Len(val.members)
        /\ \E o \in MemberOutcomes(val.members[k].class) :
             LET m == val.members[k]
                 forwarded == Update(heap[m.intermediate_results].value,
                                     heap[val.chain.intermediate_results].value)
                 results == Store(forwarded, o.stores)
                 h1 == [heap EXCEPT ![m.intermediate_results].value = results]
                 issues == h1[m.issues].value \o IssuesOf(v, k, o.n)
                 h2 == [h1 EXCEPT ![m.issues].value = issues]
                 h3 == [h2 EXCEPT ![val.chain.issues].value =
                                        Extend(@, h2[m.issues].value)]
                 h4 == [h3 EXCEPT ![val.chain.intermediate_results].value =
                                        Update(@, h3[m.intermediate_results].value)]
             IN  /\ heap' = h4
                 /\ validations' = [validations EXCEPT
                        ![v].at = k,
                        ![v].vpc = IF ChainBreaks(h2[m.issues].value, TRUE)
                                      \/ k = Len(val.members)
                                   THEN "returned" ELSE "running"]
    /\ UNCHANGED notValidationVars

ValidationsNext ==
    \/ \E v \in 1..MaxValidations : CreateChainChecker(v)
    \/ \E v \in 1..MaxValidations : RunChecker(v)

\* no call of create_and_run_chain_checker
ValidationsIdle ==
    /\ heap = <<>>
    /\ validations = <<>>

-----------------------------------------------------------------------------
(* TextContentOutputFileRequirement.get_issues_for_output_file_content *)

\* the content of a text file: newlines, spaces and other text, one token each
ContentTokens == {"n", "s", "x"}
Contents == UNION {[1..k -> ContentTokens] : k \in 0..MaxContentLen}

\* max_tokens: Optional[int], None being the empty tuple
NoMaxTokens == <<>>
MaxTokensValues == {NoMaxTokens} \cup {<<m>> : m \in 0..MaxContentLen}

\* count_number_of_tokens_in_message(content, model)
count_number_of_tokens_in_message(text) == Len(text)

RunIssue(category, item, code_problem) ==
    [category |-> category, item |-> item, code_problem |-> code_problem]

EmptyFileIssue(filename) ==
    RunIssue("Output file content", filename, "OutputFileContentLevelA")

TooLongIssue(filename) ==
    RunIssue("Output file content", filename, "OutputFileContentLevelC")

\* a variant in which the length is only looked at for a non-empty file
GetIssuesElif(requirement, filename, text) ==
    IF Len(Strip(text)) = 0 THEN <<EmptyFileIssue(filename)>>
    ELSE IF /\ requirement.max_tokens # NoMaxTokens
            /\ count_number_of_tokens_in_message(text) > requirement.max_tokens[1]
         THEN <<TooLongIssue(filename)>>
         ELSE <<>>

\* issues = super().get_issues_for_output_file_content(...) is a new empty
\* list; the two `if` statements append to it one after the other
get_issues_for_output_file_content(requirement, filename, text) ==
    LET issues == <<>>
        after_empty == IF Len(Strip(text)) = 0
                       THEN Append(issues, EmptyFileIssue(filename)) ELSE issues
    IN  IF /\ requirement.max_tokens # NoMaxTokens
           /\ count_number_of_tokens_in_message(text) > requirement.max_tokens[1]
        THEN Append(after_empty, TooLongIssue(filename))
        ELSE after_empty

TextInit ==
    /\ text_requirement \in {[kind |-> "Text", should_keep_file |-> "False",
                              filename |-> p, max_tokens |-> m] :
                                 p \in Patterns, m \in MaxTokensValues}
    /\ text_file \in {[filename |-> f, content |-> c] : f \in FileNames, c \in Contents}
    /\ matches(text_requirement, text_file.filename)
    /\ text_issues = <<>>
    /\ tpc = "created"

GetIssuesForOutputFileContent ==
    /\ tpc = "created"
    /\ tpc' = "returned"
    /\ text_issues' = get_issues_for_output_file_content(
                          text_requirement, text_file.filename, text_file.content)
    /\ UNCHANGED <<text_requirement, text_file>>
    /\ UNCHANGED notTextVars

TextNext == GetIssuesForOutputFileContent

\* no text requirement
TextIdle ==
    /\ text_requirement = None
    /\ text_file = None
    /\ text_issues = <<>>
    /\ tpc = "idle"

-----------------------------------------------------------------------------
(* RunCode: the sandboxed execution with its override context *)

\* OutputFileRequirements.get_unmatched_files, with a variant that reports
\* no file
NoUnmatchedFiles(reqs, files) == <<>>

get_unmatched_files(reqs, files) == Reconcile(reqs, files).unmatched

\* an optional argument: a value, or None
Given(value) == [given |-> TRUE, value |-> value]

\* allowed_open_write_files: None or a list of file names
NoAllowList == [given |-> FALSE, value |-> {}]
AllowLists == {NoAllowList} \cup {Given(fs) : fs \in SUBSET {<<"a">>, <<"b">>}}

\* output_file_requirements: None or an OutputFileRequirements
NoRequirements == [given |-> FALSE, value |-> <<>>]
RequirementsArguments ==
    {NoRequirements, Given(<<>>)}
    \cup {Given(<<[filename |-> pat, kind |-> "Data", should_keep_file |-> "True"]>>) :
              pat \in {<<"a">>, <<"a", "*">>}}

\* the statements of the executed code: `with open(file, 'w')`, a statement
\* that raises, one that may outlast the timeout, and any other statement
Statement(op, file) == [op |-> op, file |-> file]

Statements ==
    {Statement("open_w", f) : f \in {<<"a">>, <<"b">>}}
    \cup {Statement("raise", <<>>), Statement("sleep", <<>>), Statement("pass", <<>>)}

Sources == UNION {[1..k -> Statements] : k \in 1..MaxSourceLines}

\* the entry points an OverrideContext patches
StatisticsEntryPoints == {"f_oneway", "chi2_contingency"}

Originals == [f \in StatisticsEntryPoints |-> "original"]

\* a variant of the exit of the context that leaves the patches in place
\* when the code failed
RestoreUnlessFailed(failed) ==
    IF failed THEN entry_points ELSE Originals

\* __exit__ of the override context: the originals are put back, however
\* the execution ended
Restore(failed) == Originals

NoError == [exception |-> "None", linenos |-> <<>>]
FailedRunningCode(exception, linenos) == [exception |-> exception, linenos |-> linenos]

SandboxInit ==
    /\ run_config \in {[allowed_open_write_files |-> a, output_file_requirements |-> r] :
                           a \in AllowLists, r \in RequirementsArguments}
    /\ source \in Sources
    /\ lineno = 0
    /\ files_created = <<>>
    /\ run_error = NoError
    /\ entry_points = Originals
    /\ spc = "called"
    /\ execution = 1
    /\ endings = <<>>

\* RunCode.run enters its contexts: the entry points are patched
EnterContexts ==
    /\ spc = "called"
    /\ entry_points' = [f \in StatisticsEntryPoints |-> "wrapped"]
    /\ lineno' = 1
    /\ spc' = "running"
    /\ UNCHANGED <<run_config, source, files_created, run_error, execution, endings>>
    /\ UNCHANGED notSandboxVars

\* the code failed at the current line
FailAtLine(exception) ==
    /\ run_error' = FailedRunningCode(exception, <<lineno>>)
    /\ spc' = "exiting"
    /\ UNCHANGED <<lineno, files_created>>

\* the statement at the current line went through
GoOn(created) ==
    /\ files_created' = created
    /\ lineno' = lineno + 1
    /\ UNCHANGED <<run_error, spc>>

\* the statement at the current line is executed
ExecuteStatement ==
    /\ spc = "running"
    /\ lineno <= Len(source)
    /\ LET st == source[lineno]
           allowed == run_config.allowed_open_write_files
       IN  CASE st.op = "open_w" ->
                  IF allowed.given /\ st.file \notin allowed.value
                  THEN FailAtLine("CodeWriteForbiddenFile")
                  ELSE GoOn(IF st.file \in Range(files_created) THEN files_created
                            ELSE Append(files_created, st.file))
             [] st.op = "raise" -> FailAtLine("Exception")
             [] st.op = "sleep" -> FailAtLine("TimeoutError") \/ GoOn(files_created)
             [] st.op = "pass" -> GoOn(files_created)
    /\ UNCHANGED <<run_config, source, entry_points, execution, endings>>
    /\ UNCHANGED notSandboxVars

\* the code ran to its end: the created files are held against the
\* output file requirements, when there are any
CheckCreatedFiles ==
    /\ spc = "running"
    /\ lineno > Len(source)
    /\ LET reqs == run_config.output_file_requirements
       IN  run_error' =
             IF reqs.given /\ get_unmatched_files(reqs.value, files_created) # <<>>
             THEN FailedRunningCode("UnAllowedFilesCreated", <<>>)
             ELSE NoError
    /\ spc' = "exiting"
    /\ UNCHANGED <<run_config, source, lineno, files_created, entry_points, execution,
                   endings>>
    /\ UNCHANGED notSandboxVars

\* the contexts are left and run returns
ExitContexts ==
    /\ spc = "exiting"
    /\ entry_points' = Restore(run_error # NoError)
    /\ spc' = "returned"
    /\ endings' = Append(endings, run_error.exception)
    /\ UNCHANGED <<run_config, source, lineno, files_created, run_error, execution>>
    /\ UNCHANGED notSandboxVars

\* the next execution: another code, run with the same arguments in a new
\* run folder
NextExecution ==
    /\ spc = "returned"
    /\ execution < MaxExecutions
    /\ execution' = execution + 1
    /\ source' \in Sources
    /\ lineno' = 0
    /\ files_created' = <<>>
    /\ run_error' = NoError
    /\ spc' = "called"
    /\ UNCHANGED <<run_config, entry_points, endings>>
    /\ UNCHANGED notSandboxVars

SandboxNext ==
    \/ EnterContexts
    \/ ExecuteStatement
    \/ CheckCreatedFiles
    \/ ExitContexts
    \/ NextExecution

\* no sandboxed execution
SandboxIdle ==
    /\ run_config = None
    /\ source = <<>>
    /\ lineno = 0
    /\ files_created = <<>>
    /\ run_error = NoError
    /\ entry_points = Originals
    /\ spc = "idle"
    /\ execution = 0
    /\ endings = <<>>

-----------------------------------------------------------------------------
(* The df checkers: values, tables and arguments *)

\* Python values of the keyword arguments, each a tuple of strings
PyNone == <<"None">>
PyTrue == <<"bool", "True">>
PyFalse == <<"bool", "False">>
Str(s) == <<"str", s>>
Text(tokens) == <<"str">> \o tokens
List(items) == <<"list">> \o items

\* truth value of a Python value
IsTruthy(v) == v \notin {PyNone, PyFalse, <<"str">>, Str(""), <<"list">>}

\* kwargs.get(key, default)
KwGet(kw, key, default) == IF key \in DOMAIN kw THEN kw[key] ELSE default

\* BaseDfChecker.is_figure and table_or_figure
is_figure(self) == self.func_name = "df_to_figure"
table_or_figure(self) == IF is_figure(self) THEN "figure" ELSE "table"

\* BaseDfChecker.x and BaseDfChecker.index
x_arg(self) == KwGet(self.kwargs, "x", PyNone)

index_arg(self) ==
    IF is_figure(self)
    THEN IF IsTruthy(KwGet(self.kwargs, "use_index", PyTrue))
         THEN x_arg(self) = PyNone
         ELSE FALSE
    ELSE IsTruthy(KwGet(self.kwargs, "index", PyTrue))

\* what the text of an issue names: a value, cells of the df, and tables or
\* columns
Names(value, cells, items) == [value |-> value, cells |-> cells, items |-> items]
NoNames == Names("", <<>>, <<>>)

\* BaseDfChecker._append_issue: the category and the item default to the
\* class's category and to the filename
DfIssue(self, category, issue, names) ==
    [category |-> category, item |-> self.filename, issue |-> issue, names |-> names]

\* a label of an index: its Python type and, for a number, its value
Label(type, v) == [type |-> type, v |-> v]

\* `label == k` for an int k of range(n): a number equals it by value (a
\* bool is a number), a string or a tuple never does
EqualsInt(label, k) == label.type \in {"int", "float", "bool"} /\ label.v = k

\* the dtypes of an index and the type of the labels each holds
IndexDtypes ==
    { [dtype |-> "int64", type |-> "int", multi |-> FALSE],
      [dtype |-> "int32", type |-> "int", multi |-> FALSE],
      [dtype |-> "float64", type |-> "float", multi |-> FALSE],
      [dtype |-> "bool", type |-> "bool", multi |-> FALSE],
      [dtype |-> "object", type |-> "int", multi |-> FALSE],
      [dtype |-> "object", type |-> "str", multi |-> FALSE],
      [dtype |-> "object", type |-> "tuple", multi |-> TRUE] }

\* an index of n labels
Indexes(n) ==
    UNION { { [labels |-> [i \in 1..n |-> Label(k.type, vs[i])], dtype |-> k.dtype,
               multi |-> k.multi] :
                vs \in {w \in [1..n -> 0..n] : k.type = "bool" => \A i \in 1..n : w[i] <= 1} } :
            k \in IndexDtypes }

\* dtype == int: the dtype is the default integer dtype of the interpreter
DtypeIsInt(dtype) == dtype = int_dtype

-----------------------------------------------------------------------------
(* DfContentChecker.check_df_index_is_a_range *)

\* not isinstance(index, MultiIndex) and list(index) == list(range(num_rows))
\* and index.dtype == int
index_is_range(df) ==
    /\ ~df.index.multi
    /\ \A i \in 1..Len(df.index.labels) : EqualsInt(df.index.labels[i], i - 1)
    /\ DtypeIsInt(df.index.dtype)

check_df_index_is_a_range(self) ==
    IF ~index_arg(self) THEN <<>>
    ELSE IF index_is_range(self.df)
         THEN <<DfIssue(self, "Problem with df index/columns",
                        IF is_figure(self) THEN "the index used as x-values is just a range"
                        ELSE "the index used as row labels is just a range",
                        NoNames)>>
         ELSE <<>>

\* the cells of a table of n rows and one column
Column(n) == [i \in 1..n |-> <<"0.5">>]

IndexKwargs ==
    { kw \in UNION {[K -> {PyTrue, PyFalse, Str("c")}] : K \in SUBSET {"index", "use_index", "x"}} :
        /\ "x" \in DOMAIN kw => kw["x"] = Str("c")
        /\ \A key \in DOMAIN kw \ {"x"} : kw[key] # Str("c") }

\* a filename, one character after the other
DfX == <<"d", "f", "_", "x">>

\* no limit on the rows or the columns of a df
NoLimit == <<>>
NoLimits == <<NoLimit, NoLimit>>

\* a new checker; `limits` is what _get_max_rows_and_columns gives for it
NewChecker(func_name, df, filename, kw, prior_dfs) ==
    [func_name |-> func_name, df |-> df, filename |-> filename, kwargs |-> kw,
     prior_dfs |-> prior_dfs, issues |-> RunIssues, limits |-> NoLimits]

IndexInit ==
    /\ int_dtype \in {"int64", "int32"}
    /\ checked = "none"
    /\ \E n \in 0..MaxRows :
         checker \in { NewChecker(f, [index |-> ix, columns |-> <<"c">>, values |-> Column(n)],
                                  DfX, kw, <<>>) :
                          f \in {"df_to_latex", "df_to_figure"}, ix \in Indexes(n),
                          kw \in IndexKwargs }

\* a check method is called on the new checker
CheckDfIndexIsARange ==
    /\ checked = "none"
    /\ checked' = "check_df_index_is_a_range"
    /\ checker' = [checker EXCEPT !.issues = @ \o check_df_index_is_a_range(checker)]
    /\ UNCHANGED int_dtype
    /\ UNCHANGED notDfVars

IndexNext == CheckDfIndexIsARange

-----------------------------------------------------------------------------
(* TableDfContentChecker: repeated values in the df and in prior dfs *)

\* the values of the cells: two numbers that are not whole and a whole one
CellValues == {"3.14", "2.72", "7"}

\* a table of three rows and three columns whose cells all differ
DistinctValues ==
    << <<"0.11", "0.12", "0.13">>, <<"0.21", "0.22", "0.23">>, <<"0.31", "0.32", "0.33">> >>

is_non_integer_numeric(v) ==
    v \in {"3.14", "2.72"} \cup {DistinctValues[r][c] : r \in 1..3, c \in 1..3}

\* the cells of a table of given shape
Tables(rows, cols) == [1..rows -> [1..cols -> CellValues]]

\* df.values.flatten(): the cells row after row
RECURSIVE flatten(_)
flatten(values) ==
    IF values = <<>> THEN <<>> ELSE Head(values) \o flatten(Tail(values))

count(seq, v) == Cardinality({i \in DOMAIN seq : seq[i] = v})

\* a variant that keeps every value of the df
all_values(values) == flatten(values)

\* [v for v in df.values.flatten() if is_non_integer_numeric(v)]
non_integer_values(values) == SelectSeq(flatten(values), is_non_integer_numeric)

\* np.where(df.values == value) zipped: the (row, col) of the cells that
\* hold the value, row after row, counted from 0
RECURSIVE positions_in_row(_, _, _, _)
positions_in_row(row, r, c, value) ==
    IF c > Len(row) THEN <<>>
    ELSE (IF row[c] = value THEN <<<<r - 1, c - 1>>>> ELSE <<>>)
         \o positions_in_row(row, r, c + 1, value)

RECURSIVE positions_from(_, _, _)
positions_from(values, r, value) ==
    IF r > Len(values) THEN <<>>
    ELSE positions_in_row(values[r], r, 1, value) \o positions_from(values, r + 1, value)

where(values, value) == positions_from(values, 1, value)

\* the cells of the df that hold the value
CellsWith(values, value) == {where(values, value)[i] : i \in DOMAIN where(values, value)}

check_df_for_repeated_values(self) ==
    LET df_values == non_integer_values(self.df.values)
        duplicated_values == SelectSeq(df_values, LAMBDA v : count(df_values, v) > 1)
        example_value == duplicated_values[1]
    IN  IF Len(df_values) # Cardinality({df_values[i] : i \in DOMAIN df_values})
        THEN <<DfIssue(self, "Overlapping values", "the same values in multiple cells",
                       Names(example_value, where(self.df.values, example_value), <<>>))>>
        ELSE <<>>

\* a prior df: its name, its cells, and whether it is the very df of the checker
PriorDf(name, values, same) == [name |-> name, values |-> values, same |-> same]

\* a variant that takes no prior table for the checked one
is_never_df(prior_table, self) == FALSE

\* prior_table is self.df
is_df(prior_table, self) == prior_table.same

\* any(value in prior_table_values for value in df_values)
overlap(df_values, prior_table_values) ==
    \E i \in DOMAIN df_values : \E j \in DOMAIN prior_table_values :
        df_values[i] = prior_table_values[j]

check_df_for_repeated_values_in_prior_dfs(self) ==
    IF self.prior_dfs = <<>> THEN <<>>
    ELSE LET df_values == non_integer_values(self.df.values)
             flagged == SelectSeq(self.prior_dfs,
                                  LAMBDA prior : /\ ~is_df(prior, self)
                                                 /\ overlap(df_values,
                                                            non_integer_values(prior.values)))
         IN  [i \in 1..Len(flagged) |->
                 DfIssue(self, "Overlapping values", "values that overlap with a prior table",
                         Names("", <<>>, <<flagged[i].name>>))]

\* an index of row labels that are strings
RowNames == <<"a", "b", "c", "d">>

RowLabels(n) ==
    [labels |-> [i \in 1..n |-> Label("str", RowNames[i])], dtype |-> "object", multi |-> FALSE]

ColumnLabels(n) == [i \in 1..n |-> "c"]

Df(values) ==
    [index |-> RowLabels(Len(values)),
     columns |-> ColumnLabels(IF values = <<>> THEN 0 ELSE Len(values[1])),
     values |-> values]

ValuesInit ==
    /\ int_dtype = "int64"
    /\ checked = "none"
    /\ \E rows \in 1..MaxRows, cols \in 1..MaxCols :
         checker \in { NewChecker("df_to_latex", Df(values), DfX, <<>>, <<>>) :
                          values \in Tables(rows, cols) }

CheckDfForRepeatedValues ==
    /\ checked = "none"
    /\ checked' = "check_df_for_repeated_values"
    /\ checker' = [checker EXCEPT !.issues = @ \o check_df_for_repeated_values(checker)]
    /\ UNCHANGED int_dtype
    /\ UNCHANGED notDfVars

ValuesNext == CheckDfForRepeatedValues

\* the prior dfs of a run: tables of one row, or the checked df itself
PriorTables == Tables(1, 1) \cup Tables(1, 2)

PriorDfNames == <<"df_1", "df_2", "df_3">>

PriorDfs(values) ==
    UNION { { [i \in 1..n |-> IF e[i] = <<>> THEN PriorDf(PriorDfNames[i], values, TRUE)
                              ELSE PriorDf(PriorDfNames[i], e[i], FALSE)] :
                e \in [1..n -> PriorTables \cup {<<>>}] } :
            n \in 0..MaxPriorDfs }

PriorInit ==
    /\ int_dtype = "int64"
    /\ checked = "none"
    /\ \E values \in PriorTables :
         checker \in { NewChecker("df_to_latex", Df(values), DfX, <<>>, prior_dfs) :
                          prior_dfs \in PriorDfs(values) }

CheckDfForRepeatedValuesInPriorDfs ==
    /\ checked = "none"
    /\ checked' = "check_df_for_repeated_values_in_prior_dfs"
    /\ checker' = [checker EXCEPT
                      !.issues = @ \o check_df_for_repeated_values_in_prior_dfs(checker)]
    /\ UNCHANGED int_dtype
    /\ UNCHANGED notDfVars

PriorNext == CheckDfForRepeatedValuesInPriorDfs

-----------------------------------------------------------------------------
(* check_df_to_latex_analysis: TableSyntaxDfChecker, then TableDfContentChecker *)

\* the characters of the model that \w matches: letters, a digit and the
\* underscore
WordCharacters == {"d", "f", "x", "_", "o", "r", "m", "a", "t", "e", "1"}

\* the same without the + of \w+
matches_df_prefix(filename) ==
    LET end == IF filename # <<>> /\ filename[Len(filename)] = "\n"
               THEN Len(filename) - 1 ELSE Len(filename)
    IN  /\ end >= 3
        /\ SubSeq(filename, 1, 3) = <<"d", "f", "_">>
        /\ \A i \in 4..end : filename[i] \in WordCharacters

\* re.match(r'^df_\w+$', filename): $ matches at the end of the string and
\* before a newline that ends it
matches_df_name(filename) ==
    LET end == IF filename # <<>> /\ filename[Len(filename)] = "\n"
               THEN Len(filename) - 1 ELSE Len(filename)
    IN  /\ end >= 4
        /\ SubSeq(filename, 1, 3) = <<"d", "f", "_">>
        /\ \A i \in 4..end : filename[i] \in WordCharacters

SyntaxIssue(self, issue) ==
    DfIssue(self, "Checking df_to_figure/df_to_latex for call syntax", issue, NoNames)

check_filename(self) ==
    IF ~matches_df_name(self.filename)
    THEN <<SyntaxIssue(self, "the filename should be in the format df_<alphanumeric>")>>
    ELSE <<>>

check_no_label(self) ==
    IF IsTruthy(KwGet(self.kwargs, "label", PyNone))
    THEN <<SyntaxIssue(self, "the label argument should not be used")>>
    ELSE <<>>

check_that_index_is_true(self) ==
    IF ~index_arg(self)
    THEN <<SyntaxIssue(self, "do not call df_to_latex with index=False")>>
    ELSE <<>>

check_column_arg_is_never_reported(self) == <<>>

check_column_arg_is_not_used(self) ==
    IF "columns" \in DOMAIN self.kwargs
    THEN <<SyntaxIssue(self, "do not use the columns argument in df_to_latex")>>
    ELSE <<>>

description_labels == {"mean", "std", "min", "25%", "50%", "75%", "max"}

\* the labels of an index that are strings
StringLabels(index) ==
    {index.labels[i].v : i \in {j \in DOMAIN index.labels : index.labels[j].type = "str"}}

check_df_is_a_result_of_describe(self) ==
    IF \/ description_labels \subseteq {self.df.columns[i] : i \in DOMAIN self.df.columns}
       \/ description_labels \subseteq StringLabels(self.df.index)
    THEN <<DfIssue(self, "The df looks like a df.describe() table, not a scientific table",
                   "the df includes mean, std, as well as quantiles and min/max values",
                   NoNames)>>
    ELSE <<>>

\* the Python type of the value of a cell
TypeOfValue(v) ==
    CASE v = "7" -> "int"
      [] v = "None" -> "NoneType"
      [] v = "text" -> "str"
      [] v = "PValue" -> "PValue"
      [] OTHER -> "float"

\* ALLOWED_VALUE_TYPES
ALLOWED_VALUE_TYPES == {"int", "float", "str", "bool", "tuple", "PValue"}

\* ALLOWED_COLUMN_AND_INDEX_TYPES
ALLOWED_COLUMN_AND_INDEX_TYPES == {"int", "str", "bool"}

check_df_for_nan_values(self) ==
    IF \E i \in DOMAIN flatten(self.df.values) : flatten(self.df.values)[i] = "nan"
    THEN <<DfIssue(self, "Problem with df values", "the df has NaN values", NoNames)>>
    ELSE <<>>

check_df_value_types(self) ==
    IF \E i \in DOMAIN flatten(self.df.values) :
           TypeOfValue(flatten(self.df.values)[i]) \notin ALLOWED_VALUE_TYPES
    THEN <<DfIssue(self, "Problem with df values", "values of types which are not allowed",
                   NoNames)>>
    ELSE <<>>

\* the columns are strings here; the labels of the levels of a MultiIndex
\* are taken to be strings too
check_df_headers_type(self) ==
    IF /\ ~self.df.index.multi
       /\ \E i \in DOMAIN self.df.index.labels :
              self.df.index.labels[i].type \notin ALLOWED_COLUMN_AND_INDEX_TYPES
    THEN <<DfIssue(self, "Problem with df index/columns",
                   "index headers of unsupported types", NoNames)>>
    ELSE <<>>

is_lower_eq(n, limit) == limit = NoLimit \/ n <= limit[1]

\* the number of rows and of columns of the df
shape(df) == <<Len(df.index.labels), Len(df.columns)>>

\* an issue of check_df_size: the axis it is about, and whether its
\* instructions end with the note about transposing
SizeIssue(self, ax, transpose_note) ==
    [category |-> "Too large df", item |-> self.filename,
     issue |-> IF ax = 1 THEN "too many rows" ELSE "too many columns",
     names |-> Names("", <<>>, <<IF ax = 1 THEN "rows" ELSE "columns">>),
     transpose_note |-> transpose_note]

\* a variant that suggests transposing whenever the df does not fit
check_df_size_always_transpose(self) ==
    LET TooMany(ax) ==
            IF ~is_lower_eq(shape(self.df)[ax], self.limits[ax])
            THEN <<SizeIssue(self, ax, TRUE)>>
            ELSE <<>>
    IN  TooMany(1) \o TooMany(2)

check_df_size(self) ==
    LET max_rows_and_columns == self.limits
        transpose_note ==
            /\ is_lower_eq(shape(self.df)[1], max_rows_and_columns[2])
            /\ is_lower_eq(shape(self.df)[2], max_rows_and_columns[1])
        TooMany(ax) ==
            IF ~is_lower_eq(shape(self.df)[ax], max_rows_and_columns[ax])
            THEN <<SizeIssue(self, ax, transpose_note)>>
            ELSE <<>>
    IN  IF /\ is_lower_eq(shape(self.df)[1], max_rows_and_columns[1])
           /\ is_lower_eq(shape(self.df)[2], max_rows_and_columns[2])
        THEN <<>>
        ELSE TooMany(1) \o TooMany(2)

\* is_containing_p_value(data): some value of the column is a PValue
is_containing_p_value(column) == \E r \in DOMAIN column : column[r] = "PValue"

\* ---- the table compilation checker in check_df_to_latex_displayitems ----

\* ListInfoDataFrame.extra_info[-1][2] plus '_formatted'
Formatted == <<"_", "f", "o", "r", "m", "a", "t", "t", "e", "d">>

\* isinstance(df, ListInfoDataFrame): only such a df has extra_info
is_ListInfoDataFrame(df) == "extra_info" \in DOMAIN df

ContinuityIssue(self, issue) == DfIssue(self, "File continuity", issue, NoNames)

check_for_file_continuity(self) ==
    IF ~is_ListInfoDataFrame(self.df)
    THEN <<ContinuityIssue(self, "you can only use the loaded df object")>>
    ELSE LET previous_filename == self.df.extra_info[Len(self.df.extra_info)][3]
             should_be_filename == previous_filename \o Formatted
         IN  IF self.filename # should_be_filename
             THEN <<ContinuityIssue(self, "the current file name should be the loaded one plus _formatted")>>
             ELSE <<>>

\* len(data) > 5
RepetitiveRows == 5

\* round(data0) == data0 and data0 < 10: the integers among the values of
\* the model are below 10
is_small_integer(data0) == TypeOfValue(data0) = "int"

\* the issues of the columns icol.. of the df
RECURSIVE repetitive_value_issues(_, _)
repetitive_value_issues(self, icol) ==
    IF icol > Len(self.df.columns) THEN <<>>
    ELSE LET data == [r \in DOMAIN self.df.values |-> self.df.values[r][icol]]
             data_unique == {data[r] : r \in DOMAIN data}
             issue ==
                 IF is_containing_p_value(data) THEN <<>>
                 ELSE IF Cardinality(data_unique) = 1 /\ Len(data) > RepetitiveRows
                 THEN IF TypeOfValue(data[1]) \notin {"int", "float"} THEN <<>>
                      ELSE IF is_small_integer(data[1]) THEN <<>>
                      ELSE <<DfIssue(self, "Same value throughout a column",
                                     "the column has the same unique value for all rows",
                                     Names("", <<>>, <<self.df.columns[icol]>>))>>
                 ELSE <<>>
         IN  issue \o repetitive_value_issues(self, icol + 1)

check_for_repetitive_value_in_column(self) == repetitive_value_issues(self, 1)

\* check(self), for the checks of the two checkers of a table
CallCheck(name, self) ==
    CASE name = "check_filename" -> check_filename(self)
      [] name = "check_no_label" -> check_no_label(self)
      [] name = "check_that_index_is_true" -> check_that_index_is_true(self)
      [] name = "check_column_arg_is_not_used" -> check_column_arg_is_not_used(self)
      [] name = "check_df_is_a_result_of_describe" -> check_df_is_a_result_of_describe(self)
      [] name = "check_df_for_repeated_values" -> check_df_for_repeated_values(self)
      [] name = "check_df_for_repeated_values_in_prior_dfs" ->
             check_df_for_repeated_values_in_prior_dfs(self)
      [] name = "check_df_for_nan_values" -> check_df_for_nan_values(self)
      [] name = "check_df_value_types" -> check_df_value_types(self)
      [] name = "check_df_headers_type" -> check_df_headers_type(self)
      [] name = "check_df_index_is_a_range" -> check_df_index_is_a_range(self)
      [] name = "check_df_size" -> check_df_size(self)
      [] name = "check_for_file_continuity" -> check_for_file_continuity(self)
      [] name = "check_for_repetitive_value_in_column" ->
             check_for_repetitive_value_in_column(self)

\* BaseChecker._run_checks from the i-th check of the class on; these
\* checks return None
RECURSIVE run_checks_from(_, _, _)
run_checks_from(class, self, i) ==
    IF i > Len(class.CHOICE_OF_CHECKS) THEN self.issues
    ELSE LET issues == self.issues \o CallCheck(class.CHOICE_OF_CHECKS[i].name, self)
         IN  IF CheckerBreaks(issues, class.stop_after_first_issue, FALSE)
             THEN issues
             ELSE run_checks_from(class, [self EXCEPT !.issues = issues], i + 1)

run_checks(class, self) == run_checks_from(class, self, 1)

\* ChainChecker._run_checks from the i-th checker on; every checker is a
\* new instance made from the arguments of the call
RECURSIVE chain_run_checks_from(_, _, _, _)
chain_run_checks_from(classes, args, issues, i) ==
    IF i > Len(classes) THEN issues
    ELSE LET new == run_checks(classes[i], [args EXCEPT !.issues = RunIssues])
         IN  IF ChainBreaks(new, TRUE)
             THEN Extend(issues, new)
             ELSE chain_run_checks_from(classes, args, Extend(issues, new), i + 1)

create_and_run_chain_checker(classes, args) ==
    chain_run_checks_from(classes, args, RunIssues, 1)

\* the index 0..n-1 that a df gets when none is given
RangeIndex(n) ==
    [labels |-> [i \in 1..n |-> Label("int", i - 1)], dtype |-> "int64", multi |-> FALSE]

\* the table of distinct values with the value put in the two cells
WithValueInTwoCells(value, cell1, cell2) ==
    [r \in 1..3 |-> [c \in 1..3 |->
        IF <<r, c>> \in {cell1, cell2} THEN value ELSE DistinctValues[r][c]]]

Cells3x3 == (1..3) \X (1..3)

LatexKwargs ==
    UNION { [K -> {PyTrue, PyFalse}] : K \in SUBSET {"index", "label", "columns"} }

LatexFilenames == {DfX, <<"d", "f", "_">>, <<"x">>, <<"d", "f", "_", "x", "-">>}

LatexLimits == {NoLimits, <<<<2>>, <<3>>>>, <<<<3>>, <<3>>>>}

\* a call of df_to_latex for a table of three rows and three columns with
\* the index 0..2 and the value 3.14 in two cells
LatexInit ==
    /\ int_dtype = "int64"
    /\ checked = "none"
    /\ checker \in
         { [NewChecker("df_to_latex",
                       [index |-> RangeIndex(3), columns |-> ColumnLabels(3),
                        values |-> WithValueInTwoCells("3.14", cell1, cell2)],
                       filename, kw, <<>>) EXCEPT !.limits = limits] :
              cell1 \in Cells3x3, cell2 \in Cells3x3, filename \in LatexFilenames,
              kw \in LatexKwargs, limits \in LatexLimits }
    /\ Cardinality(CellsWith(checker.df.values, "3.14")) = 2

\* check_df_to_latex_analysis(df, filename, kwargs): the issues it returns
CheckDfToLatexAnalysis ==
    /\ checked = "none"
    /\ checked' = "check_df_to_latex_analysis"
    /\ checker' = [checker EXCEPT
                      !.issues = create_and_run_chain_checker(check_df_to_latex_analysis,
                                                              checker)]
    /\ UNCHANGED int_dtype
    /\ UNCHANGED notDfVars

LatexNext == CheckDfToLatexAnalysis

-----------------------------------------------------------------------------
(* AnnotationDfChecker.check_caption *)

\* the pieces a caption is made of: the two words, dots, angle brackets, a
\* line break and any other word
CaptionTokens == {"Figure", "Table", "...", ".", "<", ">", "\n", "x"}

Captions == UNION {[1..n -> CaptionTokens] : n \in 0..MaxCaptionLen}

\* BaseDfChecker.caption
caption(self) == KwGet(self.kwargs, "caption", PyNone)

\* the characters of a Python string
chars(value) == Tail(value)

\* text.startswith(forbidden_start)
startswith(text, forbidden_start) == text # <<>> /\ text[1] = forbidden_start

\* '...' in text
contains_three_dots(text) ==
    \E i \in DOMAIN text :
        \/ text[i] = "..."
        \/ i + 2 <= Len(text) /\ text[i] = "." /\ text[i + 1] = "." /\ text[i + 2] = "."

\* re.search(r'<.*\>', text): a '<' and, later on the same line, a '>'
search_angle_brackets(text) ==
    \E i \in DOMAIN text : \E j \in DOMAIN text :
        /\ i < j
        /\ text[i] = "<"
        /\ text[j] = ">"
        /\ \A k \in (i + 1)..(j - 1) : text[k] # "\n"

forbidden_starts == <<"Figure", "Table">>

CaptionIssue(self, issue) == DfIssue(self, "Problem with displayitem caption", issue, NoNames)

IssueIf(condition, issue) == IF condition THEN <<issue>> ELSE <<>>

\* a variant that reports only the first fault of a text
check_caption_or_note_once(self, text, item_name, is_required) ==
    IF text = PyNone
    THEN IssueIf(is_required, CaptionIssue(self, <<item_name, "missing">>))
    ELSE IF startswith(chars(text), "Figure") \/ startswith(chars(text), "Table")
         THEN <<CaptionIssue(self, <<item_name, "starts with", "Figure or Table">>)>>
         ELSE IF contains_three_dots(chars(text))
              THEN <<CaptionIssue(self, <<item_name, "contains", "...">>)>>
              ELSE IssueIf(search_angle_brackets(chars(text)),
                           CaptionIssue(self, <<item_name, "contains", "<...>">>))

\* AnnotationDfChecker._check_caption_or_note
check_caption_or_note(self, text, item_name, is_required) ==
    IF text = PyNone
    THEN IssueIf(is_required, CaptionIssue(self, <<item_name, "missing">>))
    ELSE IssueIf(startswith(chars(text), forbidden_starts[1]),
                 CaptionIssue(self, <<item_name, "starts with", forbidden_starts[1]>>))
         \o IssueIf(startswith(chars(text), forbidden_starts[2]),
                    CaptionIssue(self, <<item_name, "starts with", forbidden_starts[2]>>))
         \o IssueIf(contains_three_dots(chars(text)),
                    CaptionIssue(self, <<item_name, "contains", "...">>))
         \o IssueIf(search_angle_brackets(chars(text)),
                    CaptionIssue(self, <<item_name, "contains", "<...>">>))

check_caption(self) == check_caption_or_note(self, caption(self), "caption", TRUE)

CaptionKwargs ==
    {<<>>, "caption" :> PyNone} \cup {"caption" :> Text(t) : t \in Captions}

CaptionInit ==
    /\ int_dtype = "int64"
    /\ checked = "none"
    /\ checker \in { NewChecker(f, Df(<<<<"3.14">>>>), DfX, kw, <<>>) :
                        f \in {"df_to_latex", "df_to_figure"}, kw \in CaptionKwargs }

CheckCaption ==
    /\ checked = "none"
    /\ checked' = "check_caption"
    /\ checker' = [checker EXCEPT !.issues = @ \o check_caption(checker)]
    /\ UNCHANGED int_dtype
    /\ UNCHANGED notDfVars

CaptionNext == CheckCaption

-----------------------------------------------------------------------------
(* FigureDfContentChecker.check_for_p_values_in_figure *)

\* a cell holds a PValue or a plain number
PValueCells == {"PValue", "3.14"}

ColumnNames == <<"a", "b", "c">>

\* df[col]: the cells of the column of that name
ColumnOf(df, col) ==
    LET c == CHOOSE k \in DOMAIN df.columns : df.columns[k] = col
    IN  [r \in DOMAIN df.values |-> df.values[r][c]]

is_only_p_values(column) == \A r \in DOMAIN column : column[r] = "PValue"

\* BaseDfChecker.y_p_value and BaseDfChecker.x_p_value
y_p_value(self) == KwGet(self.kwargs, "y_p_value", PyNone)
x_p_value(self) == KwGet(self.kwargs, "x_p_value", PyNone)

\* get_xy_err_ci_p_value(..., as_list=True): a str becomes a list of one
as_list(value) == IF value[1] = "str" THEN <<value[2]>> ELSE Tail(value)

contains(list, item) == \E i \in DOMAIN list : list[i] = item

PValueIssue(self, issue, columns) ==
    DfIssue(self, "Plotting P-values", issue, Names("", <<>>, columns))

check_for_p_values_in_figure(self) ==
    LET p_value_columns ==
            SelectSeq(self.df.columns, LAMBDA col : is_containing_p_value(ColumnOf(self.df, col)))
        not_pure_p_values ==
            SelectSeq(p_value_columns, LAMBDA col : ~is_only_p_values(ColumnOf(self.df, col)))
        chosen_columns_are_not_p_values ==
            SelectSeq(as_list(y_p_value(self)), LAMBDA col : ~contains(p_value_columns, col))
        p_value_columns_not_in_y_p_value ==
            SelectSeq(p_value_columns, LAMBDA col : ~contains(as_list(y_p_value(self)), col))
    IN  IF IsTruthy(x_p_value(self))
        THEN <<PValueIssue(self, "the x_p_value argument is not supported", <<>>)>>
        ELSE IF y_p_value(self) = PyNone
        THEN <<>>
        ELSE IF not_pure_p_values # <<>>
        THEN <<PValueIssue(self, "columns contain p-values and non-p-values",
                           not_pure_p_values)>>
        ELSE IF x_p_value(self) # PyNone /\ y_p_value(self) # PyNone
        THEN <<PValueIssue(self, "both x_p_value and y_p_value are set", <<>>)>>
        ELSE IssueIf(chosen_columns_are_not_p_values # <<>>,
                     PValueIssue(self, "the columns of y_p_value are not p-values",
                                 chosen_columns_are_not_p_values))
             \o IssueIf(p_value_columns_not_in_y_p_value # <<>>,
                        PValueIssue(self, "columns contain p-values but are not in y_p_value",
                                    p_value_columns_not_in_y_p_value))

\* the lists of different names of columns
ColumnLists(n) ==
    UNION { {l \in [1..k -> {ColumnNames[i] : i \in 1..n}] :
                \A i \in 1..k : \A j \in 1..k : i # j => l[i] # l[j]} : k \in 0..n }

PValueKwargs(n) ==
    LET xs == {<<>>, "x_p_value" :> PyNone, "x_p_value" :> Str(""),
               "x_p_value" :> Str(ColumnNames[1])}
        ys == {<<>>, "y_p_value" :> PyNone}
              \cup {"y_p_value" :> Str(ColumnNames[i]) : i \in 1..n}
              \cup {"y_p_value" :> List(l) : l \in ColumnLists(n)}
    IN  {kx @@ ky : kx \in xs, ky \in ys}

PValueInit ==
    /\ int_dtype = "int64"
    /\ checked = "none"
    /\ \E cols \in 1..MaxCols :
         checker \in { NewChecker("df_to_figure",
                                  [index |-> RowLabels(2),
                                   columns |-> SubSeq(ColumnNames, 1, cols),
                                   values |-> values],
                                  DfX, kw, <<>>) :
                          values \in [1..2 -> [1..cols -> PValueCells]],
                          kw \in PValueKwargs(cols) }

CheckForPValuesInFigure ==
    /\ checked = "none"
    /\ checked' = "check_for_p_values_in_figure"
    /\ checker' = [checker EXCEPT !.issues = @ \o check_for_p_values_in_figure(checker)]
    /\ UNCHANGED int_dtype
    /\ UNCHANGED notDfVars

PValueNext == CheckForPValuesInFigure

-----------------------------------------------------------------------------
(* DfContentChecker.check_df_size on one df *)

\* the limits that may be looked up for a table or a figure of some kind
SizeLimits ==
    {<<r, c>> : r \in {NoLimit} \cup {<<k>> : k \in 1..MaxRows},
                c \in {NoLimit} \cup {<<k>> : k \in 1..MaxCols}}

SizeInit ==
    /\ int_dtype = "int64"
    /\ checked = "none"
    /\ \E rows \in 1..MaxRows, cols \in 1..MaxCols :
         checker \in { [NewChecker(f, Df([r \in 1..rows |-> [c \in 1..cols |-> "7"]]),
                                   DfX, <<>>, <<>>) EXCEPT !.limits = limits] :
                          f \in {"df_to_latex", "df_to_figure"}, limits \in SizeLimits }

CheckDfSize ==
    /\ checked = "none"
    /\ checked' = "check_df_size"
    /\ checker' = [checker EXCEPT !.issues = @ \o check_df_size(checker)]
    /\ UNCHANGED int_dtype
    /\ UNCHANGED notDfVars

SizeNext == CheckDfSize

\* ---- SyntaxDfChecker.check_filename ----

MaxFilenameLen == 5

\* the characters of a filename: letters, a digit, the underscore, the
\* hyphen and the newline
FilenameCharacters == {"d", "f", "1", "_", "-", "\n"}

Filenames == UNION { [1..n -> FilenameCharacters] : n \in 0..MaxFilenameLen }

\* a table or a figure that is saved under some filename
FilenameInit ==
    /\ int_dtype = "int64"
    /\ checked = "none"
    /\ checker \in { NewChecker(func_name, Df(DistinctValues), filename, <<>>, <<>>) :
                        func_name \in {"df_to_latex", "df_to_figure"},
                        filename \in Filenames }

CheckFilename ==
    /\ checked = "none"
    /\ checked' = "check_filename"
    /\ checker' = [checker EXCEPT !.issues = @ \o check_filename(checker)]
    /\ UNCHANGED int_dtype
    /\ UNCHANGED notDfVars

FilenameNext == CheckFilename

\* ---- FigureSyntaxDfChecker ----

\* ALLOWED_PLOT_KINDS
ALLOWED_PLOT_KINDS == {"bar"}

\* BaseDfChecker.kind, y, yerr, xerr, y_ci and x_ci
kind(self) == KwGet(self.kwargs, "kind", PyNone)
y_arg(self) == KwGet(self.kwargs, "y", PyNone)
yerr(self) == KwGet(self.kwargs, "yerr", PyNone)
xerr(self) == KwGet(self.kwargs, "yerr", PyNone)
y_ci(self) == KwGet(self.kwargs, "y_ci", PyNone)
x_ci(self) == KwGet(self.kwargs, "x_ci", PyNone)

\* [value] if isinstance(value, str) else value
to_list(value) == IF value[1] = "str" THEN List(<<value[2]>>) ELSE value

\* the items of a list
items(list) == Tail(list)

\* BaseDfChecker.get_xy_err_ci_p_value(x_or_y, as_list=True)
get_xy_err_ci_p_value(self, x_or_y) ==
    IF x_or_y = "x"
    THEN <<to_list(x_arg(self)), to_list(xerr(self)), to_list(x_ci(self)),
           to_list(x_p_value(self))>>
    ELSE <<to_list(y_arg(self)), to_list(yerr(self)), to_list(y_ci(self)),
           to_list(y_p_value(self))>>

check_kind_arg(self) ==
    IF kind(self) = PyNone
    THEN <<SyntaxIssue(self, "plot kind is not specified")>>
    ELSE IF kind(self)[2] \notin ALLOWED_PLOT_KINDS
    THEN <<SyntaxIssue(self, "plot kind is not supported")>>
    ELSE <<>>

check_y_arg(self) ==
    IF y_arg(self) = PyNone
    THEN <<SyntaxIssue(self, "no y values are specified")>>
    ELSE <<>>

check_yerr_arg(self) ==
    IF yerr(self) # PyNone
    THEN <<SyntaxIssue(self, "do not use the yerr argument in df_to_figure")>>
    ELSE <<>>

base_arg_names == <<"", "err", "_ci", "_p_value">>

\* the issue of one argument: the columns that do not exist, the name of
\* the argument and the available columns
UnspecifiedColumnsIssue(self, arg_name, un_specified_columns) ==
    [category |-> "Checking df_to_figure/df_to_latex for call syntax",
     item |-> self.filename,
     issue |-> "the columns specified in the argument do not exist in the df",
     names |-> Names(arg_name, <<>>, un_specified_columns),
     available |-> self.df.columns]

\* the issues of the arguments i.. of x or of y
RECURSIVE unspecified_columns_issues(_, _, _)
unspecified_columns_issues(self, xy, i) ==
    IF i > Len(base_arg_names) THEN <<>>
    ELSE LET arg == get_xy_err_ci_p_value(self, xy)[i]
             un_specified_columns ==
                 SelectSeq(items(arg), LAMBDA col : ~contains(self.df.columns, col))
         IN  (IF arg # PyNone /\ un_specified_columns # <<>>
              THEN <<UnspecifiedColumnsIssue(self, xy \o base_arg_names[i],
                                             un_specified_columns)>>
              ELSE <<>>)
             \o unspecified_columns_issues(self, xy, i + 1)

check_that_specified_columns_exist(self) ==
    unspecified_columns_issues(self, "x", 1) \o unspecified_columns_issues(self, "y", 1)

\* ---- FigureDfContentChecker ----

\* what a check does: it returns after it has appended its issues, or it
\* raises an exception
Returns(issues) == [issues |-> issues, raised |-> "None"]
Raises(exception) == [issues |-> <<>>, raised |-> exception]

\* pd.api.types.is_numeric_dtype of a column of the df and of its index
is_numeric_dtype(column) ==
    \A r \in DOMAIN column : TypeOfValue(column[r]) \in {"int", "float"}
is_numeric_index(index) == index.dtype # "object"

\* df[column] raises a KeyError for a name that is not a column, and
\* iterating over None a TypeError
IterationOver(columns, self) ==
    IF columns = PyNone THEN "TypeError"
    ELSE IF \E i \in DOMAIN items(columns) : ~contains(self.df.columns, items(columns)[i])
    THEN "KeyError"
    ELSE "None"

FigureIssue(self, issue, columns) ==
    DfIssue(self, "Checking figure", issue, Names("", <<>>, columns))

\* ALLOWED_COLUMN_AND_INDEX_TYPES and ALLOW_MULTI_INDEX_FOR_COLUMN_AND_INDEX
\* of FigureDfContentChecker, for the index; the columns of the model are
\* single-level strings
FIGURE_ALLOWED_INDEX_TYPES == {"int", "str", "bool", "float"}

figure_check_df_headers_type(self) ==
    IF self.df.index.multi
    THEN <<DfIssue(self, "Problem with df index/columns",
                   "the dataframe has a multi-index for the index", NoNames)>>
    ELSE IF \E i \in DOMAIN self.df.index.labels :
                self.df.index.labels[i].type \notin FIGURE_ALLOWED_INDEX_TYPES
    THEN <<DfIssue(self, "Problem with df index/columns",
                   "index headers of unsupported types", NoNames)>>
    ELSE <<>>

check_that_y_values_are_numeric(self) ==
    LET y == get_xy_err_ci_p_value(self, "y")[1]
    IN  IF IterationOver(y, self) # "None" THEN Raises(IterationOver(y, self))
        ELSE LET not_numeric ==
                     SelectSeq(items(y),
                               LAMBDA column : ~is_numeric_dtype(ColumnOf(self.df, column)))
             IN  Returns([i \in DOMAIN not_numeric |->
                             FigureIssue(self, "the column is not numeric",
                                         <<not_numeric[i]>>)])

check_for_max_number_of_bars(self) ==
    IF kind(self) = PyNone \/ kind(self)[2] \notin {"bar", "barh"} THEN Returns(<<>>)
    ELSE LET y == get_xy_err_ci_p_value(self, "y")[1]
         IN  IF y = PyNone THEN Raises("TypeError")
             ELSE IF ~is_lower_eq(Len(self.df.values) * Len(items(y)), self.MAX_BARS)
             THEN Returns(<<FigureIssue(self, "the plot has a large number of bars", <<>>)>>)
             ELSE Returns(<<>>)

\* df[column].nunique() <= 2
FewUnique == 2

check_that_y_values_are_diverse(self) ==
    IF kind(self) = PyNone \/ kind(self)[2] \notin {"box", "violin", "hist"}
    THEN Returns(<<>>)
    ELSE LET y == get_xy_err_ci_p_value(self, "y")[1]
         IN  IF IterationOver(y, self) # "None" THEN Raises(IterationOver(y, self))
             ELSE LET n_unique(column) ==
                          Cardinality({ColumnOf(self.df, column)[r] :
                                          r \in DOMAIN self.df.values})
                      not_diverse ==
                          SelectSeq(items(y), LAMBDA column : n_unique(column) <= FewUnique)
                  IN  Returns([i \in DOMAIN not_diverse |->
                                  FigureIssue(self, "the column has too few unique values",
                                              <<not_diverse[i]>>)])

\* BaseContentDfChecker._get_x_values of a figure, and whether they are
\* numeric
check_for_numeric_x_for_line_and_scatter(self) ==
    IF kind(self) = PyNone \/ kind(self)[2] \notin {"line", "scatter"} THEN Returns(<<>>)
    ELSE IF x_arg(self) # PyNone /\ ~contains(self.df.columns, x_arg(self)[2])
    THEN Raises("KeyError")
    ELSE IF IF x_arg(self) = PyNone THEN is_numeric_index(self.df.index)
            ELSE is_numeric_dtype(ColumnOf(self.df, x_arg(self)[2]))
    THEN Returns(<<>>)
    ELSE Returns(<<FigureIssue(self, "the x values are not numeric", <<>>)>>)

\* check(self), for the checks of the two checkers of a figure
CallFigureCheck(name, self) ==
    CASE name = "check_kind_arg" -> Returns(check_kind_arg(self))
      [] name = "check_y_arg" -> Returns(check_y_arg(self))
      [] name = "check_yerr_arg" -> Returns(check_yerr_arg(self))
      [] name = "check_that_specified_columns_exist" ->
             Returns(check_that_specified_columns_exist(self))
      [] name = "check_df_headers_type" -> Returns(figure_check_df_headers_type(self))
      [] name = "check_that_y_values_are_numeric" -> check_that_y_values_are_numeric(self)
      [] name = "check_for_p_values_in_figure" -> Returns(check_for_p_values_in_figure(self))
      [] name = "check_for_max_number_of_bars" -> check_for_max_number_of_bars(self)
      [] name = "check_that_y_values_are_diverse" -> check_that_y_values_are_diverse(self)
      [] name = "check_for_numeric_x_for_line_and_scatter" ->
             check_for_numeric_x_for_line_and_scatter(self)
      [] OTHER -> Returns(CallCheck(name, self))

\* BaseChecker._run_checks from the i-th check of the class on, for checks
\* that may raise
RECURSIVE run_figure_checks_from(_, _, _)
run_figure_checks_from(class, self, i) ==
    IF i > Len(class.CHOICE_OF_CHECKS) THEN Returns(self.issues)
    ELSE LET result == CallFigureCheck(class.CHOICE_OF_CHECKS[i].name, self)
             issues == self.issues \o result.issues
         IN  IF result.raised # "None" THEN result
             ELSE IF CheckerBreaks(issues, class.stop_after_first_issue, FALSE)
             THEN Returns(issues)
             ELSE run_figure_checks_from(class, [self EXCEPT !.issues = issues], i + 1)

FigureKwargs ==
    LET Arg(key, values) == {<<>>} \cup {key :> v : v \in values}
    IN  { k @@ x @@ y @@ xe @@ ye @@ xc @@ yc @@ xp @@ yp :
            k \in Arg("kind", {Str("bar"), Str("line")}),
            x \in Arg("x", {Str("a"), Str("z")}),
            y \in Arg("y", {Str("a"), Str("z"), List(<<"a", "b">>), List(<<"z", "a", "y">>)}),
            xe \in Arg("xerr", {Str("a"), Str("z")}),
            ye \in Arg("yerr", {Str("z")}),
            xc \in Arg("x_ci", {Str("z")}),
            yc \in Arg("y_ci", {Str("a"), List(<<"a", "z">>)}),
            xp \in Arg("x_p_value", {Str("z")}),
            yp \in Arg("y_p_value", {Str("z")}) }

\* a df with the columns a and b, a of numbers and b of numbers or texts
FigureDfs ==
    { [index |-> RowLabels(2), columns |-> <<"a", "b">>,
       values |-> << <<"3.14", b>>, <<"2.72", b>> >>] : b \in {"3.14", "text"} }

\* MAX_BARS: no limit, or one that two columns of two rows exceed
MaxBars == {NoLimit, <<3>>}

\* a call of check_df_to_figure_analysis
FigureInit ==
    /\ int_dtype = "int64"
    /\ checked = "none"
    /\ checker \in
         { NewChecker("df_to_figure", df, DfX, kw, <<>>)
             @@ [MAX_BARS |-> max_bars, ran |-> <<>>] :
              df \in FigureDfs, kw \in FigureKwargs, max_bars \in MaxBars }

\* ChainChecker._run_checks: the first checker of check_df_to_figure_analysis
RunFigureSyntaxDfChecker ==
    /\ checked = "none"
    /\ LET result == run_figure_checks_from(check_df_to_figure_analysis[1], checker, 1)
       IN  /\ checker' = [checker EXCEPT !.issues = result.issues,
                                         !.ran = Append(@, "FigureSyntaxDfChecker")]
           /\ checked' = IF result.issues # <<>> THEN "returned" ELSE "FigureSyntaxDfChecker"
    /\ UNCHANGED int_dtype
    /\ UNCHANGED notDfVars

\* ChainChecker._run_checks: the second checker; an exception of a check
\* ends the call
RunFigureDfContentChecker ==
    /\ checked = "FigureSyntaxDfChecker"
    /\ LET result == run_figure_checks_from(check_df_to_figure_analysis[2], checker, 1)
       IN  /\ checker' = [checker EXCEPT !.issues = result.issues,
                                         !.ran = Append(@, "FigureDfContentChecker")]
           /\ checked' = IF result.raised # "None" THEN result.raised ELSE "returned"
    /\ UNCHANGED int_dtype
    /\ UNCHANGED notDfVars

FigureNext == RunFigureSyntaxDfChecker \/ RunFigureDfContentChecker

\* ---- check_compilation_and_get_width ----

\* a width ratio in hundredths, the float that the compiler returns
Float(hundredths) == [type |-> "float", hundredths |-> hundredths]

\* the error text that the compiler returns instead
CompilationError == [type |-> "str", hundredths |-> 0]

\* intermediate_results['width'] of a new CompilationDfContentChecker
NoWidth == [type |-> "NoneType", hundredths |-> 0]

isinstance_float(e) == e.type = "float"

\* e_transpose < 1.1
TransposeThreshold100 == 110

\* len(label) > 6
LongLabel == 6

\* ProvideData.get_item('compile_to_pdf_func'), None on the RuntimeError
\* of a missing item
compilation_func == compile_to_pdf_func

\* kwargs.pop(key, default): the value and the remaining kwargs
pop(kw, key, default) ==
    [value |-> KwGet(kw, key, default),
     kwargs |-> [k \in DOMAIN kw \ {key} |-> kw[k]]]

\* a call of df_to_latex or of the compiler, with the run contexts that
\* are active when it is made
Call(func, df, kw) == [func |-> func, df |-> df, kwargs |-> kw, active |-> contexts]

\* _df_to_latex_transpose: the call of df_to_latex that it makes
df_to_latex_transpose(self) ==
    LET index == pop(self.kwargs, "index", PyTrue)
        header == pop(index.kwargs, "header", PyTrue)
    IN  Call("df_to_latex", "df.T",
             header.kwargs @@ ("index" :> header.value) @@ ("header" :> index.value))

\* the labels that are long: the lengths of the labels that
\* _find_longest_labels_in_index and
\* _find_longest_labels_in_columns_relative_to_content return, None as <<>>
long_labels(labels) ==
    SelectSeq(labels, LAMBDA label : label # <<>> /\ label[1] > LongLabel)

CompilationFailureIssue(self) ==
    [category |-> "Table pdflatex compilation failure", item |-> self.filename,
     issue |-> "when trying to compile it using pdflatex, I got the following error",
     names |-> NoNames]

TooWideIssue(self, index_note, column_note, drop_column_message, transpose_message) ==
    [category |-> "Table too wide", item |-> self.filename,
     issue |-> "I tried to compile it, but the table is too wide",
     names |-> NoNames,
     index_note |-> index_note, column_note |-> column_note,
     drop_column_message |-> drop_column_message,
     transpose_message |-> transpose_message]

\* l.785-834 of check_compilation_and_get_width: the issue of a table
\* that is too wide, given the result of compiling the transposed table
too_wide_issue_on_any_transpose(self, e_transpose) ==
    LET transpose_message == isinstance_float(e_transpose)
        index_note ==
            index_arg(self) /\ long_labels(self.df.longest_index_labels) # <<>>
        column_note ==
            index_arg(self) /\ long_labels(self.df.longest_column_labels) # <<>>
        drop_column_message == ~index_note /\ ~column_note /\ ~transpose_message
    IN  TooWideIssue(self, index_note, column_note, drop_column_message,
                     transpose_message)

too_wide_issue(self, e_transpose) ==
    LET transpose_message ==
            isinstance_float(e_transpose)
            /\ e_transpose.hundredths < TransposeThreshold100
        index_note ==
            index_arg(self) /\ long_labels(self.df.longest_index_labels) # <<>>
        column_note ==
            index_arg(self) /\ long_labels(self.df.longest_column_labels) # <<>>
        drop_column_message == ~index_note /\ ~column_note /\ ~transpose_message
    IN  TooWideIssue(self, index_note, column_note, drop_column_message,
                     transpose_message)

\* the checkers of check_df_to_latex_displayitems that run before the
\* compilation checker
CheckersBeforeCompilation == SubSeq(check_df_to_latex_displayitems, 1, 4)

\* the active run contexts around a call of check_df_to_latex_displayitems
RunContexts == {<<>>, <<"context_1">>, <<"context_1", "context_2">>}

\* what the compiler returns for the table and for the transposed table
CompilationResults ==
    {Float(0), Float(130), Float(131), CompilationError}
TransposeCompilationResults ==
    {Float(109), Float(110), CompilationError}

\* no item is provided, or a compiler
Compilers ==
    {<<>>} \cup { <<[table |-> e, transpose |-> e_transpose]>> :
                     e \in CompilationResults,
                     e_transpose \in TransposeCompilationResults }

CompileKwargs ==
    UNION { [K -> {PyTrue, PyFalse}] : K \in SUBSET {"index", "columns", "header"} }

\* the lengths of the longest labels: none, short ones, a long one
LongestLabels == {<<>>, << <<6>> >>, << <<>>, <<7>> >>}

\* the df that was loaded from df_x, or a df that was made anew
CompileDfs ==
    { Df(SubSeq(DistinctValues, 1, 2)) @@ [longest_index_labels |-> i, longest_column_labels |-> c] @@ x :
        i \in LongestLabels, c \in LongestLabels,
        x \in {<<>>, [extra_info |-> << <<"", "", DfX>> >>]} }

CompileFilenames == {DfX \o Formatted, DfX}

\* a call of check_df_to_latex_displayitems inside some run contexts
CompileInit ==
    /\ int_dtype = "int64"
    /\ checked = "none"
    /\ checker \in
         { NewChecker("df_to_latex", df, filename, kw, <<>>)
             @@ [intermediate_results |-> [width |-> NoWidth]] :
              df \in CompileDfs, filename \in CompileFilenames, kw \in CompileKwargs }
    /\ contexts \in RunContexts
    /\ contexts_before = contexts
    /\ suspended = <<>>
    /\ calls = <<>>
    /\ compile_to_pdf_func \in Compilers

\* ChainChecker._run_checks over the checkers before the compilation
\* checker: the chain returns their issues, or goes on
RunCheckersBeforeCompilation ==
    /\ checked = "none"
    /\ LET issues == chain_run_checks_from(CheckersBeforeCompilation, checker,
                                           RunIssues, 1)
       IN  /\ checker' = [checker EXCEPT !.issues = issues]
           /\ checked' = IF issues # <<>> THEN "returned"
                         ELSE "check_compilation_and_get_width"
    /\ UNCHANGED <<int_dtype, compileVars>>
    /\ UNCHANGED notCompileVars

\* with RegisteredRunContext.temporarily_disable_all(): on entry (l.751
\* and l.783)
TemporarilyDisableAll ==
    /\ checked \in {"check_compilation_and_get_width", "transposed"}
    /\ checked' = IF checked = "transposed" THEN "transposed and disabled"
                  ELSE "disabled"
    /\ suspended' = contexts
    /\ contexts' = <<>>
    /\ UNCHANGED <<checker, int_dtype, contexts_before, calls, compile_to_pdf_func>>
    /\ UNCHANGED notCompileVars

\* l.752-778: render and compile the table, leave the with block, store
\* the width and report a compilation failure
RenderAndCompile ==
    /\ checked = "disabled"
    /\ LET latex == Call("df_to_latex", "df", checker.kwargs)
           e == IF compilation_func = <<>> THEN Float(0)
                ELSE compilation_func[1].table
           stored == [checker EXCEPT !.intermediate_results.width = e]
       IN  /\ calls' = IF compilation_func = <<>> THEN Append(calls, latex)
                       ELSE calls \o <<latex, Call("compile", "df", <<>>)>>
           /\ checker' =
                IF ~isinstance_float(e)
                THEN [stored EXCEPT !.issues = Append(@, CompilationFailureIssue(checker))]
                ELSE stored
           /\ checked' = IF isinstance_float(e) /\ e.hundredths > WidthThreshold100
                         THEN "too wide" ELSE "returned"
    /\ contexts' = suspended
    /\ suspended' = <<>>
    /\ UNCHANGED <<int_dtype, contexts_before, compile_to_pdf_func>>
    /\ UNCHANGED notCompileVars

\* l.781-782: render the transposed table; the assertion of
\* _df_to_latex_transpose fails when there is a columns argument
RenderTransposed ==
    /\ checked = "too wide"
    /\ IF "columns" \in DOMAIN checker.kwargs
       THEN checked' = "AssertionError" /\ UNCHANGED calls
       ELSE /\ checked' = "transposed"
            /\ calls' = Append(calls, df_to_latex_transpose(checker))
    /\ UNCHANGED <<checker, int_dtype, contexts, contexts_before, suspended,
                   compile_to_pdf_func>>
    /\ UNCHANGED notCompileVars

\* l.784-834: compile the transposed table, leave the with block and
\* report the table that is too wide
CompileTransposed ==
    /\ checked = "transposed and disabled"
    /\ LET e_transpose == compilation_func[1].transpose
       IN  /\ calls' = Append(calls, Call("compile", "df.T", <<>>))
           /\ checker' = [checker EXCEPT
                             !.issues = Append(@, too_wide_issue(checker, e_transpose))]
    /\ checked' = "returned"
    /\ contexts' = suspended
    /\ suspended' = <<>>
    /\ UNCHANGED <<int_dtype, contexts_before, compile_to_pdf_func>>
    /\ UNCHANGED notCompileVars

CompileNext ==
    \/ RunCheckersBeforeCompilation
    \/ TemporarilyDisableAll
    \/ RenderAndCompile
    \/ RenderTransposed
    \/ CompileTransposed

\* no run context, no call and no compiler
CompileIdle ==
    /\ contexts = <<>>
    /\ contexts_before = <<>>
    /\ suspended = <<>>
    /\ calls = <<>>
    /\ compile_to_pdf_func = <<>>

\* no df checker
DfIdle ==
    /\ checker = None
    /\ checked = "idle"
    /\ int_dtype = "int64"
    /\ CompileIdle

-----------------------------------------------------------------------------
(* Specifications *)

\* the code runner
Init == RunnerInit /\ FilesIdle /\ ChainIdle /\ ValidationsIdle /\ TextIdle /\ SandboxIdle
    /\ DfIdle
Next == RunnerNext
Spec == Init /\ [][Next]_vars

\* the output file requirements
FilesSpecInit == FilesInit /\ RunnerIdle /\ ChainIdle /\ ValidationsIdle /\ TextIdle /\ SandboxIdle
    /\ DfIdle
FilesSpec == FilesSpecInit /\ [][FilesNext]_vars

\* the checker framework
ChainSpecInit == ChainInit /\ RunnerIdle /\ FilesIdle /\ ValidationsIdle /\ TextIdle /\ SandboxIdle
    /\ DfIdle
ChainSpec == ChainSpecInit /\ [][ChainNext]_vars

\* several validations at once
ValidationsSpecInit == ValidationsInit /\ RunnerIdle /\ FilesIdle /\ ChainIdle /\ TextIdle /\ SandboxIdle
    /\ DfIdle
ValidationsSpec == ValidationsSpecInit /\ [][ValidationsNext]_vars

\* the issues of a text output file
TextSpecInit ==
    TextInit /\ RunnerIdle /\ FilesIdle /\ ChainIdle /\ ValidationsIdle /\ SandboxIdle
    /\ DfIdle
TextSpec == TextSpecInit /\ [][TextNext]_vars

\* sandboxed executions
SandboxSpecInit ==
    SandboxInit /\ RunnerIdle /\ FilesIdle /\ ChainIdle /\ ValidationsIdle /\ TextIdle
    /\ DfIdle
SandboxSpec == SandboxSpecInit /\ [][SandboxNext]_vars

\* everything but the df checker at rest
OthersIdle ==
    RunnerIdle /\ FilesIdle /\ ChainIdle /\ ValidationsIdle /\ TextIdle /\ SandboxIdle
    /\ CompileIdle

\* check_df_index_is_a_range on one table or figure
IndexSpecInit == IndexInit /\ OthersIdle
IndexSpec == IndexSpecInit /\ [][IndexNext]_vars

\* check_df_for_repeated_values on one table
ValuesSpecInit == ValuesInit /\ OthersIdle
ValuesSpec == ValuesSpecInit /\ [][ValuesNext]_vars

\* check_df_to_latex_analysis on one call of df_to_latex
LatexSpecInit == LatexInit /\ OthersIdle
LatexSpec == LatexSpecInit /\ [][LatexNext]_vars

\* check_caption on one table or figure
CaptionSpecInit == CaptionInit /\ OthersIdle
CaptionSpec == CaptionSpecInit /\ [][CaptionNext]_vars

\* check_for_p_values_in_figure on one figure
PValueSpecInit == PValueInit /\ OthersIdle
PValueSpec == PValueSpecInit /\ [][PValueNext]_vars

\* check_df_size on one table or figure
SizeSpecInit == SizeInit /\ OthersIdle
SizeSpec == SizeSpecInit /\ [][SizeNext]_vars

\* the table compilation checker at its place in check_df_to_latex_displayitems
CompileSpecInit ==
    CompileInit /\ RunnerIdle /\ FilesIdle /\ ChainIdle /\ ValidationsIdle /\ TextIdle
    /\ SandboxIdle
CompileSpec == CompileSpecInit /\ [][CompileNext]_vars

\* check_df_to_figure_analysis on one call of df_to_figure
FigureSpecInit == FigureInit /\ OthersIdle
FigureSpec == FigureSpecInit /\ [][FigureNext]_vars

\* check_filename on one table or figure
FilenameSpecInit == FilenameInit /\ OthersIdle
FilenameSpec == FilenameSpecInit /\ [][FilenameNext]_vars

\* check_df_for_repeated_values_in_prior_dfs on one table and its prior dfs
PriorSpecInit == PriorInit /\ OthersIdle
PriorSpec == PriorSpecInit /\ [][PriorNext]_vars

-----------------------------------------------------------------------------
(* Properties of CodeRunner *)

FencePositions(resp) == {i \in 1..Len(resp) : resp[i] = "F"}

\* the response holds exactly one fenced block: an opening and a closing fence
OneFencedBlock(resp) == Cardinality(FencePositions(resp)) = 2

OpeningFence(resp) == Min(FencePositions(resp))
ClosingFenceAt(resp) == CHOOSE m \in FencePositions(resp) : \A o \in FencePositions(resp) : o <= m

\* what may follow the opening fence on its line
AcceptedTags == {<<"python", "n">>, <<"s", "python", "n">>, <<"n">>}

\* the tag of an accepted block: the opening line is one of the accepted
\* ones and the closing fence stands at the start of a line of its own
TagsOf(resp) ==
    {tag \in AcceptedTags :
        /\ MatchesAt(resp, OpeningFence(resp) + 1, tag)
        /\ OpeningFence(resp) + Len(tag) + 1 <= ClosingFenceAt(resp) - 1
        /\ resp[ClosingFenceAt(resp) - 1] = "n"}

AcceptedBlock(resp) == OneFencedBlock(resp) /\ TagsOf(resp) # {}

BlockContent(resp) ==
    LET tag == CHOOSE t \in TagsOf(resp) : TRUE
    IN  SubSeq(resp, OpeningFence(resp) + Len(tag) + 1, ClosingFenceAt(resp) - 2)

\* c without its leading and trailing blanks
Trimmed(c) ==
    LET solid == {i \in 1..Len(c) : c[i] \notin Whitespace}
    IN  IF solid = {} THEN <<>>
        ELSE SubSeq(c, Min(solid), CHOOSE m \in solid : \A o \in solid : o <= m)

IsExtractFailure == Len(failure) > 0 /\ failure[1] = "FailedExtractingCode"

\* a fenced block of source as written in a response: an opening fence whose
\* line (the fence and an optional tag) ends with a newline, lines of source
\* that are not all blank, and a closing fence at the start of a line
FencedBlock(resp) ==
    /\ OneFencedBlock(resp)
    /\ resp[ClosingFenceAt(resp) - 1] = "n"
    /\ \E k \in (OpeningFence(resp) + 1)..(ClosingFenceAt(resp) - 2) :
          /\ resp[k] = "n"
          /\ \E i \in (k + 1)..(ClosingFenceAt(resp) - 2) : resp[i] \notin Whitespace

FencedContent(resp) ==
    LET k == Min({i \in (OpeningFence(resp) + 1)..(ClosingFenceAt(resp) - 2) : resp[i] = "n"})
    IN  SubSeq(resp, k + 1, ClosingFenceAt(resp) - 2)

C2_RunCodeOrder ==
    /\ pc = "delete" => AcceptedBlock(response) /\ disk = diskAtStart /\ ~executed
    /\ pc = "execute" => disk = Absent /\ ~executed
    /\ pc = "read" => executed
    /\ pc = "done" => executed /\ wrote /\ output = WrittenBy(runNo)
    /\ (pc \in {"done", "failed"} /\ executed /\ ~wrote
            /\ failure # <<"FailedRunningCode">>)
          => pc = "failed" /\ failure = <<"FailedLoadingOutput">>
    /\ IsExtractFailure => disk = diskAtStart /\ ~executed

\* a run whose execution left no output file although one existed before
C2_Witness ==
    /\ pc = "failed"
    /\ failure = <<"FailedLoadingOutput">>
    /\ diskAtStart # Absent
    /\ executed

-----------------------------------------------------------------------------
(* Properties of OutputFileRequirements *)

\* the places of a file in the lists of the reconciliation result
PlacesInLists(map, file) ==
    UNION {{<<r, i>> : i \in {k \in 1..Len(map[r]) : map[r][k] = file}} : r \in DOMAIN map}

PlacesInUnmatched(file) == {i \in 1..Len(unmatched_files) : unmatched_files[i] = file}

IsMatched(file) == \E i \in 1..Len(requirements) : matches(requirements[i], file)

\* the first requirement, in declaration order, whose pattern matches the file
FirstMatching(file) ==
    requirements[CHOOSE i \in 1..Len(requirements) :
                    /\ matches(requirements[i], file)
                    /\ \A j \in 1..(i - 1) : ~matches(requirements[j], file)]

\* C3: the reconciliation partitions the created files: every created file
\* is exactly once in the result, in the list of the first requirement that
\* matches it, or in the unmatched list, and there iff no requirement
\* matches it.
C3_ReconcilePartitions ==
    fpc = "reconciled" =>
        /\ \A file \in Range(created_files) :
              /\ Cardinality(PlacesInLists(requirements_to_output_files, file))
                    + Cardinality(PlacesInUnmatched(file)) = 1
              /\ PlacesInUnmatched(file) # {} <=> ~IsMatched(file)
              /\ IsMatched(file) =>
                    file \in Range(requirements_to_output_files[FirstMatching(file)])
        /\ DOMAIN requirements_to_output_files = Range(requirements)
        /\ \A r \in DOMAIN requirements_to_output_files :
              Range(requirements_to_output_files[r]) \subseteq Range(created_files)
        /\ Range(unmatched_files) \subseteq Range(created_files)

\* a reconciliation with an unmatched file and a file that two requirements match
C3_Witness ==
    /\ fpc = "reconciled"
    /\ unmatched_files # <<>>
    /\ \E file \in Range(created_files) :
          Cardinality(MatchingIndexes(requirements, file)) >= 2

\* the files the conversion owes an entry under requirement r
MatchedBy(r) ==
    {file \in Range(created_files) : IsMatched(file) /\ FirstMatching(file) = r}

C4_AfterConversion ==
    fpc = "converted" =>
        /\ \A file \in Range(created_files) :
              IsMatched(file) =>
                 (file \notin run_folder
                    <=> FirstMatching(file).should_keep_file = "False")
        /\ DOMAIN with_content = Range(requirements)
        /\ \A r \in DOMAIN with_content :
              /\ DOMAIN with_content[r] = MatchedBy(r)
              /\ \A file \in MatchedBy(r) :
                    with_content[r][file] = get_content(r, file)

C4_DecodedWhenDeleted ==
    \A file \in FileNames :
        (file \in run_folder /\ file \notin run_folder') =>
            /\ fpc = "delete_if_needed"
            /\ Head(todo).file = file
            /\ content # NoContent
            /\ content = get_content(Head(todo).requirement, file)

\* C4: during the conversion a matched file is decoded before it is deleted;
\* after the call a matched file is absent from the run folder iff the
\* should_keep_file flag of its requirement is false, and the returned
\* mapping holds filename -> decoded content for exactly the matched files,
\* each under the requirement that matched it.
C4_DecodeThenDelete ==
    /\ []C4_AfterConversion
    /\ [][C4_DecodedWhenDeleted]_vars

\* a conversion that deleted one matched file and kept another
C4_Witness ==
    /\ fpc = "converted"
    /\ \E file \in Range(created_files) : IsMatched(file) /\ file \notin run_folder
    /\ \E file \in Range(created_files) : IsMatched(file) /\ file \in run_folder

-----------------------------------------------------------------------------
(* Properties of the checker framework *)

\* the member checker k has returned from run_checks
Returned(k) == k < cur \/ (k = cur /\ cpc \in {"next", "done"})

\* the chain has returned from run_checks
ChainReturned == cpc = "done"

\* the checks of member k that were executed, in the order of execution
RanOf(k) == SelectSeq(ran, LAMBDA x : x.checker = k)

\* C5: a chain with stop_after_first_issue = true runs its members in list
\* order and runs no member after the first one that returned an issue; with
\* stop_after_first_issue = false every member runs.
C5_ChainStopsAfterFirstIssue ==
    /\ started = [i \in 1..Len(started) |-> i]
    /\ Len(started) <= Len(checkers)
    /\ chain_stop =>
          \A i, j \in 1..Len(started) : i < j => checker_issues[started[i]] = <<>>
    /\ (~chain_stop /\ ChainReturned) => Len(started) = Len(checkers)

\* a chain that ran two members and stopped before its last member, because
\* the second returned issues
C5_Witness ==
    /\ ChainReturned
    /\ chain_stop
    /\ 1 < Len(started) /\ Len(started) < Len(checkers)
    /\ checker_issues[cur] # <<>>

\* C6: a checker with stop_after_first_issue = true that starts without
\* issues runs its enabled checks in declared order and none after the first
\* check that appended an issue, so its issues all come from one check; with
\* stop_after_first_issue = false a check is skipped only because an earlier
\* check requested stop.
C6_CheckerStopsAfterFirstIssue ==
    \A k \in 1..Len(started) :
        LET mine == RanOf(k)
            flag == checkers[k].stop_after_first_issue
        IN  /\ \A i \in 1..Len(mine) : mine[i].check = i
            /\ Len(mine) <= Len(checkers[k].CHOICE_OF_CHECKS)
            /\ flag => /\ \A i, j \in 1..Len(mine) : i < j => mine[i].n = 0
                       /\ \A a, b \in Range(checker_issues[k]) : a.check = b.check
                       /\ (Returned(k) /\ Len(mine) < Len(checkers[k].CHOICE_OF_CHECKS))
                             => mine[Len(mine)].n > 0
            /\ (~flag /\ Returned(k) /\ Len(mine) < Len(checkers[k].CHOICE_OF_CHECKS))
                  => \E i \in 1..Len(mine) : mine[i].should_stop

\* a stopping checker returned several issues of its second check
C6_Witness ==
    /\ cur > 0 /\ Returned(cur)
    /\ checkers[cur].stop_after_first_issue
    /\ Len(checker_issues[cur]) > 1
    /\ checker_issues[cur][1].check = 2

\* C7: a check that returns a stop signal without having appended an issue
\* itself is an assertion failure, also when earlier checks of the checker
\* appended issues; a check that returns a stop signal after appending an
\* issue ends the run of its checker.
C7_StopNeedsAnIssue ==
    /\ \A i \in 1..Len(ran) :
          (ran[i].should_stop /\ ran[i].n = 0) => (i = Len(ran) /\ cpc = "assertion")
    /\ cpc = "assertion" =>
          (ran # <<>> /\ ran[Len(ran)].should_stop /\ ran[Len(ran)].n = 0)
    /\ \A i \in 1..Len(ran) :
          (ran[i].should_stop /\ ran[i].n > 0) =>
              \A j \in (i + 1)..Len(ran) : ran[j].checker # ran[i].checker

\* the assertion failed in a checker that already held issues
C7_Witness ==
    /\ cpc = "assertion"
    /\ checker_issues[cur] # <<>>

\* the keys of the default results of the members that ran
DefaultKeys == UNION {DOMAIN checkers[started[i]].intermediate_results : i \in 1..Len(started)}

\* the member at cur is about to run its first check
JustStarted == cur > 0 /\ ~Returned(cur) /\ RanOf(cur) = <<>>

\* C8: when a member starts, its intermediate_results hold every key stored
\* by the members before it with the value stored last (so the annotation
\* checker reads the width the compilation checker stored), and the chain
\* returns the union of the results of the members that ran.
C8_ResultsAreForwarded ==
    /\ JustStarted =>
          \A key \in DOMAIN written :
              /\ key \in DOMAIN checker_results[cur]
              /\ checker_results[cur][key] = written[key]
    /\ ChainReturned =>
          /\ DOMAIN chain_results = DOMAIN written \cup DefaultKeys
          /\ \A key \in DOMAIN written : chain_results[key] = written[key]
          /\ \A key \in DefaultKeys \ DOMAIN written :
                \E i \in 1..Len(started) :
                    /\ key \in DOMAIN checkers[started[i]].intermediate_results
                    /\ chain_results[key] = checkers[started[i]].intermediate_results[key]

\* the third member starts with the value the second stored over the first's
C8_Witness ==
    /\ JustStarted
    /\ cur = 3
    /\ \E i, j \in 1..Len(ran) :
          /\ ran[i].checker = 1 /\ ran[j].checker = 2
          /\ "key" \in DOMAIN checker_results[1] /\ checker_results[1]["key"] = "v1"
          /\ checker_results[2]["key"] = "v2"
    /\ checker_results[3]["key"] = "v2"

\* C9: the issues a chain returns are the issues the executed checks
\* appended, in checker order and within a checker in check order, none
\* dropped, duplicated or reordered.
C9_AllIssuesReturned ==
    /\ ChainReturned => chain_issues = appended
    /\ \A i, j \in 1..Len(appended) :
          i < j =>
             \/ appended[i].checker < appended[j].checker
             \/ /\ appended[i].checker = appended[j].checker
                /\ \/ appended[i].check < appended[j].check
                   \/ /\ appended[i].check = appended[j].check
                      /\ appended[i].n < appended[j].n

\* a chain returned the issues of two members
C9_Witness ==
    /\ ChainReturned
    /\ \E i, j \in 1..Len(chain_issues) : chain_issues[i].checker # chain_issues[j].checker

StartedNames == [i \in 1..Len(started) |-> checkers[started[i]].name]

\* the stage of a checker class in the order the claim gives
ClaimedStage(name) ==
    CASE name \in {"TableSyntaxDfChecker", "FigureSyntaxDfChecker"} -> 1
      [] name \in {"TableDfContentChecker", "FigureDfContentChecker"} -> 2
      [] name \in {"TableCompilationDfContentChecker",
                   "FigureCompilationDfContentChecker"} -> 3
      [] name \in {"SecondTableContentChecker", "SecondFigureContentChecker",
                   "AnnotationDfChecker"} -> 4
      [] name = "ContinuityDfChecker" -> 5

\* C10 as stated: in the display-item chains the checkers run in the order
\* syntax, content and size, compilation and width, second-pass annotation,
\* continuity, the continuity checker last.
C10_ContinuityRunsLast ==
    entry \in DisplayitemEntryPoints =>
        /\ \A i, j \in 1..Len(started) :
              i < j => ClaimedStage(StartedNames[i]) <= ClaimedStage(StartedNames[j])
        /\ \A i \in 1..Len(started) :
              StartedNames[i] = "ContinuityDfChecker" => i = Len(checkers)

IsPrefix(p, q) == Len(p) <= Len(q) /\ \A i \in 1..Len(p) : p[i] = q[i]

\* C10 amended: in the display-item chains the checkers run in the fixed
\* order syntax, content (with size and shape), continuity, second-pass
\* content, compilation and width, annotation; the annotation checker runs
\* last, and the order does not depend on what the checks find.
C10_FixedOrder ==
    /\ entry = "check_df_to_latex_displayitems" =>
          IsPrefix(StartedNames,
                   <<"TableSyntaxDfChecker", "TableDfContentChecker",
                     "ContinuityDfChecker", "SecondTableContentChecker",
                     "TableCompilationDfContentChecker", "AnnotationDfChecker">>)
    /\ entry = "check_df_to_figure_displayitems" =>
          IsPrefix(StartedNames,
                   <<"FigureSyntaxDfChecker", "FigureDfContentChecker",
                     "ContinuityDfChecker", "SecondFigureContentChecker",
                     "FigureCompilationDfContentChecker", "AnnotationDfChecker">>)

\* the table chain ran all its checkers
C10_Witness ==
    /\ entry = "check_df_to_latex_displayitems"
    /\ ChainReturned
    /\ Len(started) = 6


-----------------------------------------------------------------------------
(* Properties of several validations *)

\* the objects validation v holds a reference to
RefsOf(v) ==
    IF validations[v].vpc = "called" THEN {}
    ELSE {validations[v].chain.issues, validations[v].chain.intermediate_results}
         \cup {validations[v].members[k].issues : k \in DOMAIN validations[v].members}
         \cup {validations[v].members[k].intermediate_results :
                    k \in DOMAIN validations[v].members}

\* the issue lists validation v holds
IssueListsOf(v) ==
    IF validations[v].vpc = "called" THEN {}
    ELSE {validations[v].chain.issues}
         \cup {validations[v].members[k].issues : k \in DOMAIN validations[v].members}

\* C11: two validations share no issue list and no intermediate_results;
\* a validation that has just been created has empty issue lists and only
\* the default entries of its checkers in its results, and a validation's
\* issue lists only ever hold its own issues, whatever the others did.
C11_ValidationsShareNothing ==
    \A v \in DOMAIN validations :
        /\ \A w \in DOMAIN validations : v # w => RefsOf(v) \cap RefsOf(w) = {}
        /\ validations[v].vpc = "created" =>
              /\ heap[validations[v].chain.issues].value = <<>>
              /\ heap[validations[v].chain.intermediate_results].value = EmptyDict
              /\ \A k \in DOMAIN validations[v].members :
                    LET m == validations[v].members[k]
                    IN  /\ heap[m.issues].value = <<>>
                        /\ heap[m.intermediate_results].value
                              = m.class.intermediate_results
        /\ \A r \in IssueListsOf(v) :
              \A i \in DOMAIN heap[r].value : heap[r].value[i].validation = v

\* a validation was created after another one had returned issues and had
\* stored a width
C11_Witness ==
    \E v, w \in DOMAIN validations :
        /\ v # w
        /\ validations[v].vpc = "created"
        /\ validations[w].vpc = "returned"
        /\ heap[validations[w].chain.issues].value # <<>>
        /\ "width" \in DOMAIN heap[validations[w].chain.intermediate_results].value
        /\ heap[validations[w].chain.intermediate_results].value["width"] # "None"
        /\ validations[v].chain.issues > validations[w].chain.issues

-----------------------------------------------------------------------------
(* Properties of the text requirement *)

LevelsOf(iss) == {iss[i].code_problem : i \in DOMAIN iss}

\* the content has nothing but whitespace in it
IsBlank(text) == \A i \in DOMAIN text : text[i] \in Whitespace

\* C14: get_issues_for_output_file_content returns a level-A issue exactly
\* when the content is blank, a level-C issue exactly when max_tokens is set
\* and the token count is above it, each at most once and nothing else.
C14_TextContentIssues ==
    tpc = "returned" =>
        /\ "OutputFileContentLevelA" \in LevelsOf(text_issues)
              <=> IsBlank(text_file.content)
        /\ "OutputFileContentLevelC" \in LevelsOf(text_issues)
              <=> /\ text_requirement.max_tokens # NoMaxTokens
                  /\ Len(text_file.content) > text_requirement.max_tokens[1]
        /\ LevelsOf(text_issues)
              \subseteq {"OutputFileContentLevelA", "OutputFileContentLevelC"}
        /\ Len(text_issues) = Cardinality(LevelsOf(text_issues))
        /\ \A i \in DOMAIN text_issues : text_issues[i].item = text_file.filename

\* a blank file that is also too long: both issues are returned
C14_Witness ==
    /\ tpc = "returned"
    /\ Len(text_issues) = 2
    /\ IsBlank(text_file.content)
    /\ text_file.content # <<>>

-----------------------------------------------------------------------------
(* Properties of the sandboxed execution *)

OpenLines == {i \in DOMAIN source : source[i].op = "open_w"}

\* the code does nothing that may fail but open files for writing, and it
\* opens at least one
OnlyOpensFiles ==
    /\ OpenLines # {}
    /\ \A i \in DOMAIN source : source[i].op \in {"open_w", "pass"}

OpenedFiles == {source[i].file : i \in OpenLines}

\* C12: for code that opens a new file for writing: with an empty allow-list
\* the run fails with CodeWriteForbiddenFile at the line of the open; with
\* the allow-list unset the code runs to its end and, the created file
\* matching no output requirement, the run fails with UnAllowedFilesCreated
\* and no source line; with the file on the allow-list and
\* output_file_requirements unset the run does not fail.
C12_WriteAllowList ==
    (spc = "returned" /\ OnlyOpensFiles) =>
        LET allowed == run_config.allowed_open_write_files
            reqs == run_config.output_file_requirements
        IN  /\ (allowed.given /\ allowed.value = {}) =>
                  run_error = FailedRunningCode("CodeWriteForbiddenFile",
                                                <<Min(OpenLines)>>)
            /\ (~allowed.given) =>
                  /\ Range(files_created) = OpenedFiles
                  /\ lineno = Len(source) + 1
                  /\ (reqs.given /\ \E f \in OpenedFiles :
                          \A i \in DOMAIN reqs.value : ~matches(reqs.value[i], f))
                        => run_error = FailedRunningCode("UnAllowedFilesCreated", <<>>)
            /\ (allowed.given /\ OpenedFiles \subseteq allowed.value /\ ~reqs.given) =>
                  run_error = NoError

\* the allow-list is unset, one of two created files matches the only
\* requirement, and the run failed after its last line
C12_Witness ==
    /\ spc = "returned"
    /\ OnlyOpensFiles
    /\ ~run_config.allowed_open_write_files.given
    /\ run_config.output_file_requirements.given
    /\ run_config.output_file_requirements.value # <<>>
    /\ Len(files_created) = 2
    /\ run_error.exception = "UnAllowedFilesCreated"

-----------------------------------------------------------------------------
(* Properties of the df checks *)

IntegerDtypes == {"int64", "int32"}

\* the index is the sequence 0..n-1 of integers
IsIntegerRange(df) ==
    \A i \in 1..Len(df.index.labels) :
        df.index.labels[i].type = "int" /\ df.index.labels[i].v = i - 1

TrivialIndex(df) ==
    /\ ~df.index.multi
    /\ df.index.dtype \in IntegerDtypes
    /\ IsIntegerRange(df)

\* C15: check_df_index_is_a_range appends exactly one issue when the index
\* is used, single-level, of integer dtype and equal to 0..n-1, and no issue
\* for any other index.
C15_TrivialIndexIsFlagged ==
    checked = "check_df_index_is_a_range" =>
        IF index_arg(checker) /\ TrivialIndex(checker.df)
        THEN /\ Len(checker.issues) = 1
             /\ checker.issues[1].category = "Problem with df index/columns"
        ELSE checker.issues = <<>>

NonIntegers == {"3.14", "2.72"}

CellsOf(values) == {rc \in (1..Len(values)) \X (1..MaxCols + 1) : rc[2] <= Len(values[rc[1]])}

\* the cells that hold the value, counted from 0 as the issue counts them
CellsHolding(values, v) ==
    {<<rc[1] - 1, rc[2] - 1>> : rc \in {x \in CellsOf(values) : values[x[1]][x[2]] = v}}

IsRepeated(values, v) == Cardinality(CellsHolding(values, v)) >= 2

\* C16: check_df_for_repeated_values appends exactly one issue when some
\* non-integer numeric value is held by two or more cells, however many such
\* values there are; the issue names a repeated value and the coordinates of
\* all the cells that hold it; it appends nothing when only whole numbers
\* repeat.
C16_RepeatedValuesOneIssue ==
    checked = "check_df_for_repeated_values" =>
        LET values == checker.df.values
        IN  IF \E v \in NonIntegers : IsRepeated(values, v)
            THEN /\ Len(checker.issues) = 1
                 /\ LET names == checker.issues[1].names
                    IN  /\ checker.issues[1].category = "Overlapping values"
                        /\ names.value \in NonIntegers
                        /\ IsRepeated(values, names.value)
                        /\ {names.cells[i] : i \in DOMAIN names.cells}
                               = CellsHolding(values, names.value)
                        /\ Len(names.cells) = Cardinality(CellsHolding(values, names.value))
            ELSE checker.issues = <<>>

\* two different values are repeated, a whole number too, and there is one issue
C16_Witness ==
    /\ checked = "check_df_for_repeated_values"
    /\ Len(checker.issues) = 1
    /\ Len(checker.issues[1].names.cells) = 2
    /\ \A v \in NonIntegers : IsRepeated(checker.df.values, v)

\* only a whole number is repeated and there is no issue
C16_WitnessWhole ==
    /\ checked = "check_df_for_repeated_values"
    /\ IsRepeated(checker.df.values, "7")
    /\ checker.issues = <<>>

SharesNonInteger(prior, df) ==
    \E v \in NonIntegers : CellsHolding(prior.values, v) # {} /\ CellsHolding(df.values, v) # {}

\* the prior tables that are not the checked table and share a value with it
SharingPriors(self) ==
    SelectSeq(self.prior_dfs, LAMBDA prior : ~prior.same /\ SharesNonInteger(prior, self.df))

\* C18 as stated: one issue per prior table, other than the checked table
\* itself, that shares a non-integer numeric value with the checked table,
\* and each issue names the coordinates of a cell that holds a shared value.
C18_PriorOverlapNamesCell ==
    checked = "check_df_for_repeated_values_in_prior_dfs" =>
        /\ Len(checker.issues) = Len(SharingPriors(checker))
        /\ \A i \in DOMAIN checker.issues : checker.issues[i].names.cells # <<>>

\* C18 amended: one issue per prior table, other than the checked table
\* itself, that shares a non-integer numeric value with the checked table,
\* in the order of the prior tables; each issue names the checked table and
\* that prior table, and names no cell.
C18_PriorOverlapNamesTables ==
    checked = "check_df_for_repeated_values_in_prior_dfs" =>
        /\ Len(checker.issues) = Len(SharingPriors(checker))
        /\ \A i \in DOMAIN checker.issues :
              /\ checker.issues[i].category = "Overlapping values"
              /\ checker.issues[i].item = checker.filename
              /\ checker.issues[i].names.items = <<SharingPriors(checker)[i].name>>
              /\ checker.issues[i].names.cells = <<>>

\* the checked table is among its prior tables, another prior table shares
\* a value with it, and there is one issue
C18_Witness ==
    /\ checked = "check_df_for_repeated_values_in_prior_dfs"
    /\ \E i \in DOMAIN checker.prior_dfs : checker.prior_dfs[i].same
    /\ Len(checker.issues) = 1
    /\ Len(SharingPriors(checker)) = 1

HasTrivialIndexIssue(issues) ==
    \E i \in DOMAIN issues : issues[i].category = "Problem with df index/columns"

\* a 'repeated value' issue that names the two cells that hold 3.14
NamesBothCells(issue, df) ==
    /\ issue.category = "Overlapping values"
    /\ issue.names.value = "3.14"
    /\ Len(issue.names.cells) = 2
    /\ {issue.names.cells[i] : i \in DOMAIN issue.names.cells} = CellsHolding(df.values, "3.14")

\* C17 as stated: the table of three rows and columns with the index 0..2
\* and 3.14 in two cells, checked as df_to_latex, gets at least two issues,
\* a 'trivial index' one and a 'repeated value' one naming both cells.
C17_TrivialIndexAndRepeatedValue ==
    checked = "check_df_to_latex_analysis" =>
        /\ Len(checker.issues) >= 2
        /\ HasTrivialIndexIssue(checker.issues)
        /\ \E i \in DOMAIN checker.issues : NamesBothCells(checker.issues[i], checker.df)

\* the call has none of the four faults of syntax
GoodSyntax(self) ==
    /\ matches_df_name(self.filename)
    /\ "label" \notin DOMAIN self.kwargs \/ self.kwargs["label"] = PyFalse
    /\ "index" \notin DOMAIN self.kwargs \/ self.kwargs["index"] = PyTrue
    /\ "columns" \notin DOMAIN self.kwargs

\* C17 amended: for a call without a fault of syntax the table gets exactly
\* one issue, the 'repeated value' one naming both cells; no 'trivial index'
\* issue is returned, for the content checker stops at its first issue.
C17_RepeatedValueOnly ==
    checked = "check_df_to_latex_analysis" =>
        /\ ~HasTrivialIndexIssue(checker.issues)
        /\ GoodSyntax(checker) =>
              /\ Len(checker.issues) = 1
              /\ NamesBothCells(checker.issues[1], checker.df)

\* a call without a fault of syntax has been checked and got its one issue
C17_Witness ==
    /\ checked = "check_df_to_latex_analysis"
    /\ GoodSyntax(checker)
    /\ index_is_range(checker.df)
    /\ Len(checker.issues) = 1

\* the three faults of a caption that is present
BeginsWithFigureOrTable(t) == t # <<>> /\ t[1] \in {"Figure", "Table"}

HasThreeDots(t) ==
    \/ \E i \in DOMAIN t : t[i] = "..."
    \/ \E i \in 1..(Len(t) - 2) : \A k \in i..(i + 2) : t[k] = "."

HasPlaceholder(t) ==
    \E i \in DOMAIN t : \E j \in (i + 1)..Len(t) :
        t[i] = "<" /\ t[j] = ">" /\ \A k \in (i + 1)..(j - 1) : t[k] # "\n"

One(condition) == IF condition THEN 1 ELSE 0

IssuesAbout(issues, what) == {i \in DOMAIN issues : issues[i].issue[Len(issues[i].issue)] = what}

\* C19: check_caption appends exactly one issue when the caption is
\* missing; for a caption that is present it appends one issue for each of
\* the conditions that hold: it begins with 'Figure' or 'Table', it
\* contains '...', it contains an angle-bracket placeholder; the number of
\* issues is the number of conditions that hold.
C19_CaptionIssues ==
    checked = "check_caption" =>
        LET given == IF "caption" \in DOMAIN checker.kwargs
                     THEN checker.kwargs["caption"] ELSE PyNone
            t == Tail(given)
        IN  /\ \A i \in DOMAIN checker.issues :
                  checker.issues[i].category = "Problem with displayitem caption"
            /\ IF given = PyNone
               THEN /\ Len(checker.issues) = 1
                    /\ IssuesAbout(checker.issues, "missing") = {1}
               ELSE /\ Len(checker.issues) = One(BeginsWithFigureOrTable(t))
                                             + One(HasThreeDots(t)) + One(HasPlaceholder(t))
                    /\ Cardinality(IssuesAbout(checker.issues, "Figure")
                                   \cup IssuesAbout(checker.issues, "Table"))
                           = One(BeginsWithFigureOrTable(t))
                    /\ Cardinality(IssuesAbout(checker.issues, "...")) = One(HasThreeDots(t))
                    /\ Cardinality(IssuesAbout(checker.issues, "<...>")) = One(HasPlaceholder(t))

\* a caption with the three faults has been checked and got three issues
C19_Witness ==
    /\ checked = "check_caption"
    /\ "caption" \in DOMAIN checker.kwargs
    /\ checker.kwargs["caption"] # PyNone
    /\ BeginsWithFigureOrTable(Tail(checker.kwargs["caption"]))
    /\ HasThreeDots(Tail(checker.kwargs["caption"]))
    /\ HasPlaceholder(Tail(checker.kwargs["caption"]))
    /\ Len(checker.issues) = 3

\* no caption was given and there is one issue
C19_WitnessMissing ==
    /\ checked = "check_caption"
    /\ "caption" \notin DOMAIN checker.kwargs
    /\ Len(checker.issues) = 1

\* the columns that hold a p-value, and those that hold other values too
TaggedColumns(df) ==
    {df.columns[c] : c \in {k \in DOMAIN df.columns :
                               \E r \in DOMAIN df.values : df.values[r][k] = "PValue"}}

PartlyTaggedColumns(df) ==
    {df.columns[c] : c \in {k \in DOMAIN df.columns :
                               /\ \E r \in DOMAIN df.values : df.values[r][k] = "PValue"
                               /\ \E r \in DOMAIN df.values : df.values[r][k] # "PValue"}}

IsGiven(self, key) == key \in DOMAIN self.kwargs /\ self.kwargs[key] # PyNone

\* the columns declared in y_p_value, none when the argument is not given
DeclaredColumns(self) ==
    IF ~IsGiven(self, "y_p_value") THEN {}
    ELSE IF self.kwargs["y_p_value"][1] = "str" THEN {self.kwargs["y_p_value"][2]}
    ELSE {self.kwargs["y_p_value"][i] : i \in 2..Len(self.kwargs["y_p_value"])}

\* C20: check_for_p_values_in_figure appends no issue exactly when the
\* columns that contain p-values are the columns declared in y_p_value, each
\* of them contains only p-values, and x_p_value is not given; a column
\* that is partly p-values, x_p_value given together with y_p_value, and a
\* column with p-values that is not declared (also when y_p_value is not
\* given at all) each get an issue.
C20_PValueColumnsAreDeclared ==
    checked = "check_for_p_values_in_figure" =>
        /\ checker.issues = <<>> <=>
              /\ TaggedColumns(checker.df) = DeclaredColumns(checker)
              /\ PartlyTaggedColumns(checker.df) = {}
              /\ ~IsGiven(checker, "x_p_value")
        /\ PartlyTaggedColumns(checker.df) # {} => checker.issues # <<>>
        /\ IsGiven(checker, "x_p_value") /\ IsGiven(checker, "y_p_value")
              => checker.issues # <<>>
        /\ TaggedColumns(checker.df) \ DeclaredColumns(checker) # {} => checker.issues # <<>>

\* the length of an axis exceeds the maximum looked up for it
Exceeds(n, limit) == limit # NoLimit /\ n > limit[1]

AxisNames == <<"rows", "columns">>

\* C21: check_df_size appends one issue for each axis whose length exceeds
\* the maximum looked up for the df, rows first, and none when both fit; the
\* instructions suggest transposing exactly when the df does not fit as it
\* is but fits with rows and columns swapped.
C21_SizeIssuesPerAxis ==
    checked = "check_df_size" =>
        LET nrows == Len(checker.df.values)
            ncols == Len(checker.df.values[1])
            over == SelectSeq(<<1, 2>>,
                              LAMBDA ax : Exceeds(<<nrows, ncols>>[ax], checker.limits[ax]))
            swapped_fits == /\ ~Exceeds(nrows, checker.limits[2])
                            /\ ~Exceeds(ncols, checker.limits[1])
        IN  /\ Len(checker.issues) = Len(over)
            /\ \A i \in DOMAIN checker.issues :
                  /\ checker.issues[i].category = "Too large df"
                  /\ checker.issues[i].names.items = <<AxisNames[over[i]]>>
                  /\ checker.issues[i].transpose_note <=> swapped_fits

\* a df with too many rows that fits when transposed got one issue with the note
C21_Witness ==
    /\ checked = "check_df_size"
    /\ Len(checker.issues) = 1
    /\ checker.issues[1].names.items = <<"rows">>
    /\ checker.issues[1].transpose_note

\* a df with too many rows and too many columns got two issues
C21_WitnessBoth ==
    /\ checked = "check_df_size"
    /\ Len(checker.issues) = 2

-----------------------------------------------------------------------------
(* Properties of the table compilation checker *)

\* check_compilation_and_get_width has run to its end
Compiled == checked = "returned" /\ calls # <<>>

\* what the compiler returns for the table: 0.0 when there is no compiler
WidthOfTable ==
    IF compile_to_pdf_func = <<>> THEN Float(0) ELSE compile_to_pdf_func[1].table

CategoriesOf(issues) == [i \in DOMAIN issues |-> issues[i].category]

\* C22: check_compilation_and_get_width appends exactly one compilation
\* failure issue when the compiler returns an error instead of a width
\* ratio, exactly one 'too wide' issue when the ratio exceeds 1.3, and no
\* issue otherwise, also when there is no compiler; the 'too wide' issue
\* recommends transposing only if compiling the transposed table returns a
\* width ratio below 1.1
C22_CompilationIssues ==
    Compiled =>
        /\ checker.intermediate_results.width = WidthOfTable
        /\ CategoriesOf(checker.issues) =
             IF ~isinstance_float(WidthOfTable)
             THEN <<"Table pdflatex compilation failure">>
             ELSE IF WidthOfTable.hundredths > 130
             THEN <<"Table too wide">>
             ELSE <<>>
        /\ \A i \in DOMAIN checker.issues :
             (checker.issues[i].category = "Table too wide"
              /\ checker.issues[i].transpose_message)
             => /\ compile_to_pdf_func[1].transpose.type = "float"
                /\ compile_to_pdf_func[1].transpose.hundredths < 110

\* a table that is too wide, its transposed table narrow enough
C22_Witness ==
    /\ Compiled
    /\ Len(checker.issues) = 1
    /\ checker.issues[1].category = "Table too wide"
    /\ checker.issues[1].transpose_message

\* a table that is too wide, its transposed table at the threshold
C22_WitnessNoTranspose ==
    /\ Compiled
    /\ Len(checker.issues) = 1
    /\ checker.issues[1].category = "Table too wide"
    /\ ~checker.issues[1].transpose_message
    /\ compile_to_pdf_func[1].transpose = Float(110)

\* a table that does not compile
C22_WitnessFailure ==
    /\ Compiled
    /\ compile_to_pdf_func # <<>>
    /\ CategoriesOf(checker.issues) = <<"Table pdflatex compilation failure">>

\* no compiler and no issue
C22_WitnessNoCompiler ==
    /\ Compiled
    /\ compile_to_pdf_func = <<>>
    /\ checker.issues = <<>>

\* C26: every time the table compilation checker renders the table with
\* df_to_latex (the original table and the transposed table) or calls the
\* compiler, all active run contexts are temporarily disabled, and after
\* the check has returned the active run contexts are those that were
\* active before it started
C26_CallsWithContextsDisabled ==
    /\ \A i \in DOMAIN calls : calls[i].active = <<>>
    /\ checked = "returned" => contexts = contexts_before /\ suspended = <<>>

\* C27: in check_df_to_latex_displayitems the assertion of
\* _df_to_latex_transpose never fails: when the compilation checker runs,
\* 'columns' is not among the arguments of the call
C27_NoColumnsWhenCompiling ==
    /\ checked # "AssertionError"
    /\ checked \notin {"none", "returned"} => "columns" \notin DOMAIN checker.kwargs
    /\ calls # <<>> => "columns" \notin DOMAIN checker.kwargs

\* the transposed table has been rendered
C27_Witness ==
    /\ checked = "transposed"
    /\ calls[Len(calls)].func = "df_to_latex"
    /\ calls[Len(calls)].df = "df.T"

\* a call with the columns argument and nothing else to report: the chain
\* has returned the issue of the syntax checker and nothing was compiled
C27_WitnessColumns ==
    /\ checked = "returned"
    /\ "columns" \in DOMAIN checker.kwargs
    /\ calls = <<>>
    /\ Len(checker.issues) = 1
    /\ checker.issues[1].issue = "do not use the columns argument in df_to_latex"

-----------------------------------------------------------------------------
(* Properties of the figure checkers *)

FigureArguments ==
    {"x", "xerr", "x_ci", "x_p_value", "y", "yerr", "y_ci", "y_p_value"}

\* the columns that the argument names, in the order in which it names them
ColumnsNamedIn(arg) ==
    IF arg \notin DOMAIN checker.kwargs \/ checker.kwargs[arg] = PyNone THEN <<>>
    ELSE IF checker.kwargs[arg][1] = "str" THEN <<checker.kwargs[arg][2]>>
    ELSE Tail(checker.kwargs[arg])

MissingColumnsOf(arg) ==
    SelectSeq(ColumnsNamedIn(arg),
              LAMBDA col : \A i \in DOMAIN checker.df.columns : checker.df.columns[i] # col)

\* the issues of check_that_specified_columns_exist about the argument
ColumnIssuesAbout(arg) ==
    SelectSeq(checker.issues,
              LAMBDA issue : /\ issue.issue = "the columns specified in the argument do not exist in the df"
                             /\ issue.names.value = arg)

SyntaxCheckerRan == "FigureSyntaxDfChecker" \in {checker.ran[i] : i \in DOMAIN checker.ran}
ContentCheckerRan == "FigureDfContentChecker" \in {checker.ran[i] : i \in DOMAIN checker.ran}

\* C23: for each of the arguments x, xerr, x_ci, x_p_value, y, yerr, y_ci
\* and y_p_value, check_that_specified_columns_exist appends one issue if
\* and only if a column that the argument names is not in the df; the
\* issue lists exactly these columns, under the name of the argument,
\* with the columns of the df
C23_MissingColumnsPerArgument ==
    SyntaxCheckerRan /\ ~ContentCheckerRan =>
        \A arg \in FigureArguments :
            IF MissingColumnsOf(arg) = <<>> THEN ColumnIssuesAbout(arg) = <<>>
            ELSE /\ Len(ColumnIssuesAbout(arg)) = 1
                 /\ ColumnIssuesAbout(arg)[1].names.items = MissingColumnsOf(arg)
                 /\ ColumnIssuesAbout(arg)[1].available = checker.df.columns

\* C28: the rules of FigureDfContentChecker run only when y is given and
\* every column named in x, y and their err, ci and p_value arguments is in
\* the df; no content rule raises an exception, and a call without y or
\* with an unknown column returns syntax issues only
C28_ContentRulesSeeKnownColumns ==
    LET Known == /\ "y" \in DOMAIN checker.kwargs
                 /\ \A arg \in FigureArguments : MissingColumnsOf(arg) = <<>>
    IN  /\ ContentCheckerRan => Known
        /\ checked \notin {"TypeError", "KeyError"}
        /\ checked = "returned" /\ ~Known =>
             /\ checker.issues # <<>>
             /\ \A i \in DOMAIN checker.issues :
                  checker.issues[i].category =
                      "Checking df_to_figure/df_to_latex for call syntax"

-----------------------------------------------------------------------------
(* Properties of check_filename *)

Letters == {"d", "f", "x", "o", "r", "m", "a", "t", "e"}
Digits == {"1"}

\* 'df_', then one or more characters of the set, then the rest
IsDfName(filename, characters, rest) ==
    \E end \in 4..Len(filename) :
        /\ SubSeq(filename, 1, 3) = <<"d", "f", "_">>
        /\ \A i \in 4..end : filename[i] \in characters
        /\ SubSeq(filename, end + 1, Len(filename)) = rest

HasFilenameIssue ==
    \E i \in DOMAIN checker.issues :
        checker.issues[i].issue = "the filename should be in the format df_<alphanumeric>"

C24_WitnessIssue ==
    /\ checked = "check_filename"
    /\ checker.filename = <<"d", "f", "_">>
    /\ HasFilenameIssue

-----------------------------------------------------------------------------
(* Properties of CHOICE_OF_CHECKS *)

\* C25: for every checker class of the four entry points, every method
\* whose name starts with 'check', own or inherited, is a key of the
\* class's CHOICE_OF_CHECKS: the assertion at the start of _run_checks
\* never fails, and every check method is run or disabled by its entry
C25_ChoiceOfChecksIncludeAllCheckMethods ==
    /\ cpc # "missing check method"
    /\ entry \in EntryPoints =>
         \A k \in DOMAIN checkers :
             \A method \in automatically_get_all_check_methods(checkers[k].name) :
                 \E i \in DOMAIN checkers[k].CHOICE_OF_CHECKS :
                     /\ checkers[k].CHOICE_OF_CHECKS[i].name = method
                     /\ checkers[k].CHOICE_OF_CHECKS[i].kind \in {"plain", "compile"}

\* the last checker of check_df_to_latex_displayitems has passed the
\* assertion and runs its checks
C25_Witness ==
    /\ entry = "check_df_to_latex_displayitems"
    /\ cur = Len(checkers)
    /\ checkers[cur].name = "AnnotationDfChecker"
    /\ cpc = "checks"
    /\ automatically_get_all_check_methods("AnnotationDfChecker") # {}

-----------------------------------------------------------------------------
(* Properties of CodeRunner without an output file *)

\* C29: with output_file None and a response that holds one extractable
\* block, run_code fails only when the executed code raises: neither the
\* deletion of the stale output file nor the read-back raises, and a run
\* that is done has returned the extracted code with the output None
C29_NoOutputFileNoFailure ==
    (output_file = None /\ extract_code(response).ok) =>
        /\ pc = "failed" => failure[1] = "FailedRunningCode"
        /\ pc = "done" => code = extract_code(response).code /\ output = NoOutput

-----------------------------------------------------------------------------
(* Properties of get_single_output *)

\* the content requirements that designate one file by its name
DesignatedRequirements ==
    {r \in Range(requirements) :
        is_content_requirement(r) /\ ~is_wildcard(r) /\ minimal_count(r) = 1}

\* the content collected for a file under a content requirement, if any
ContentsCollectedFor(filename) ==
    {with_content[r][filename] :
        r \in {q \in DOMAIN with_content :
                 is_content_requirement(q) /\ filename \in DOMAIN with_content[q]}}

\* C30: get_single_output never raises; it returns None when there is not
\* exactly one designated content requirement or when no content was
\* collected for the file that requirement names, and otherwise it returns
\* the content (as read, or as its string) of the file of that name
C30_SingleOutputNeverRaises ==
    fpc = "single_output" =>
        /\ single_output[1] = "return"
        /\ IF Cardinality(DesignatedRequirements) # 1
           THEN single_output[2] = NoneContent
           ELSE LET designated == CHOOSE r \in DesignatedRequirements : TRUE
                    collected == ContentsCollectedFor(designated.filename)
                IN  IF collected = {} THEN single_output[2] = NoneContent
                    ELSE \E c \in collected :
                            single_output[2] \in {c, get_pretty_content(c)}

\* the rest of C30 with the failing case left aside
C30_SingleOutputWhenCollected ==
    (fpc = "single_output" /\ single_output[1] = "return") =>
        IF Cardinality(DesignatedRequirements) # 1
        THEN single_output[2] = NoneContent
        ELSE \E c \in ContentsCollectedFor(
                        (CHOOSE r \in DesignatedRequirements : TRUE).filename) :
                single_output[2] \in {c, get_pretty_content(c)}

=============================================================================
